---- MODULE Spec2Model ----
(***************************************************************************)
(* A model of the service-dispatch core of the Hyperbahn router:           *)
(*   - ServiceDispatchHandler (service-proxy.js, src/unnamed/part_002)     *)
(*   - HyperbahnHandler       (handler.js,       src/unnamed/part_000)     *)
(*   - ApplicationClients     (clients/index.js, src/unnamed/part_001)     *)
(*                                                                         *)
(* One router (SelfHostPort) is modelled.  The membership ring, the framed *)
(* RPC transport (tchannel peers, drains, connections) and the timers are  *)
(* its environment.  Host ports are modelled by their port numbers, so the *)
(* lexicographic Array.sort() of the code is the numeric order here.       *)
(***************************************************************************)
EXTENDS Integers, Sequences, FiniteSets, TLC

(***************************************************************************)
(* Bounds of the model.                                                    *)
(***************************************************************************)
\* the clock runs from 1 to MaxTime
MaxTime == 4
\* options.servicePurgePeriod handed to the constructor, in clock ticks
ServicePurgePeriodOption == 2

(***************************************************************************)
(* Names.                                                                  *)
(***************************************************************************)
Services == {"steve", "bob"}
Workers == {1, 2}
Relays == {11, 12}
HostPorts == Workers \cup Relays
\* self.channel.hostPort: this router
SelfHostPort == CHOOSE r \in Relays : \A q \in Relays : r <= q
\* the JavaScript value undefined
\* JavaScript values that may fail to be a number
Num(n) == [t |-> "number", v |-> n]
Undefined == [t |-> "undefined", v |-> 0]
NaN == [t |-> "NaN", v |-> 0]

\* an optional collection: null / undefined, or the collection
None == <<>>
Some(c) == <<c>>
IsNone(o) == Len(o) = 0
Get(o) == o[1]

VARIABLES
    now,                    \* self.channel.timers.now()
    exits,                  \* ring view: egressNodes.exitsFor(serviceName)
    updateScheduled,        \* setImmediate(updateServiceChannels) is pending
    chanMode,               \* channel.subChannels[s].serviceProxyMode, "none": no sub-channel
    chanPeers,              \* channel.subChannels[s].peers.keys()
    handlerCircuits,        \* channel.subChannels[s].handler.circuits is the registry
    relaysFor,              \* self.relaysFor
    exitServices,           \* self.exitServices : serviceName -> lastRefresh
    knownPeers,             \* self.knownPeers   : set of <<hostPort, serviceName>>
    peersToReap,            \* self.peersToReap  : set of <<hostPort, serviceName>>
    peersToPrune,           \* self.peersToPrune : set of hostPort
    connectedServicePeers,  \* set of <<serviceName, hostPort>>
    connectedPeerServices,  \* set of <<hostPort, serviceName>>
    partialRanges,          \* self.partialRanges : serviceName -> [relays, workers]
    partialAffinityEnabled, \* self.partialAffinityEnabled
    rootPeers,              \* self.channel.peers.keys(): the transport peer table
    draining,               \* peer.draining, by its reason: "none" when not draining
    connOut,                \* peer.isConnected('out')
    blockingTable,          \* self.blockingTable: null, or the set of its keys
    blockingTableRemoteConfig, \* self.blockingTableRemoteConfig, likewise
    rateLimiterEnabled,     \* self.rateLimiterEnabled
    totalRps,               \* rateLimiter.totalRequestCounter.rps
    serviceRps,             \* rateLimiter.serviceCounters : serviceName -> rps
    ksTotalRps,             \* the total kill-switch counter's rps
    ksRps,                  \* rateLimiter.ksCounters : serviceName -> rps
    edgeRps,                \* rateLimiter.edgeCounters : <<cn, sn>> -> rps
    totalRpsLimit,          \* rateLimiter.totalRpsLimit
    rpsLimitForServiceName, \* rateLimiter.rpsLimitForServiceName
    outcome,                \* what the last request was answered with
    relayPhase,             \* per exit: where sendRelay stands for the ad in progress
    attempts,               \* per exit: the `attempts` of its sendRelay
    counter,                \* the `counter` of sendRelays
    adResponse,             \* the ad / unad response: none until cb is called, then
                            \* its connectionCount
    inreq,                  \* the ad / unad in hand: req.connection.remoteName and
                            \* arg3.services as sendRelays leaves them
    relayServices,          \* per exit: opts.services of its sendRelay
    relayDone,              \* per exit: the calls of its sendRelay's callback, each
                            \* with its err argument and whether logError ran first
    discovery,              \* the discovery lookup in hand: the request, the
                            \* answer given to it, and the request forwarded for it
    circuitsEnabled,        \* self.circuitsEnabled
    circuits,               \* self.circuits: null, or the registry, the circuit
                            \* of each <<service, caller, endpoint>> key it holds
    circuitResult,          \* the Result getCircuitForRequest returned last
    lastOp                  \* the operation that ran last, with its arguments

\* the dispatcher's state apart from the circuits of the relay handlers
channelVars == <<chanMode, chanPeers, relaysFor,
                 exitServices, knownPeers, peersToReap, peersToPrune,
                 connectedServicePeers, connectedPeerServices, partialRanges,
                 partialAffinityEnabled, rootPeers, draining, connOut>>

dispatchVars == <<channelVars, handlerCircuits>>

ringVars == <<exits, updateScheduled>>

blockVars == <<blockingTable, blockingTableRemoteConfig>>

limitVars == <<totalRpsLimit, rpsLimitForServiceName>>

rateVars == <<rateLimiterEnabled, totalRps, serviceRps, ksTotalRps, ksRps, edgeRps,
              limitVars>>

relayVars == <<relayPhase, attempts, counter, adResponse, inreq, relayServices, relayDone>>

circuitVars == <<circuitsEnabled, circuits, circuitResult>>

vars == <<now, ringVars, dispatchVars, blockVars, rateVars, outcome, relayVars,
          discovery, circuitVars, lastOp>>

(***************************************************************************)
(* JavaScript helpers.                                                     *)
(***************************************************************************)
\* a > b of JavaScript on numbers: false when an operand is undefined (NaN)
JsGreater(a, b) == a.t = "number" /\ b.t = "number" /\ a.v > b.v

\* a < b of JavaScript on numbers
JsLess(a, b) == JsGreater(b, a)

\* a map with key k set to v
MapPut(m, k, v) == [x \in DOMAIN m \cup {k} |-> IF x = k THEN v ELSE m[x]]

\* delete m[k]
MapDel(m, k) == [x \in DOMAIN m \ {k} |-> m[x]]

\* the elements of a set of numbers as an ascending sequence: keys().sort()
RECURSIVE SortedSeq(_)
SortedSeq(S) == IF S = {} THEN <<>>
                ELSE LET m == CHOOSE x \in S : \A y \in S : x <= y
                     IN <<m>> \o SortedSeq(S \ {m})

\* the keys of a set of names in some fixed iteration order: Object.keys()
RECURSIVE KeySeq(_)
KeySeq(S) == IF S = {} THEN <<>>
             ELSE LET m == CHOOSE x \in S : TRUE
                  IN <<m>> \o KeySeq(S \ {m})

\* addIndexEntry(index, keya, keyb, value): the values are timestamps, read
\* back only for their truth, so an index is the set of its key pairs, a pair
\* written with the value 0 marked as <<keya, keyb, 0>>
addIndexEntry(index, keya, keyb, value) ==
    (index \ {<<keya, keyb>>, <<keya, keyb, 0>>})
    \cup {IF value = 0 THEN <<keya, keyb, 0>> ELSE <<keya, keyb>>}

\* deleteIndexEntry(index, keya, keyb): the entry is deleted when its value
\* is truthy, and an emptied level is deleted with it
deleteIndexEntry(index, keya, keyb) == index \ {<<keya, keyb>>}

\* index[keya] is truthy
HasLevel(index, keya) == \E e \in index : e[1] = keya

\* Object.keys(index[keya])
LevelKeys(index, keya) == {e[2] : e \in {x \in index : x[1] = keya}}

\* Object.keys(index)
IndexKeys(index) == {e[1] : e \in index}

(***************************************************************************)
(* The dispatcher state as one record, so that the helper methods of the   *)
(* code can be applied one after the other inside one handler.  `calls`    *)
(* collects the calls of ensurePeerDisconnected the handler makes.         *)
(***************************************************************************)
St == [mode |-> chanMode, peers |-> chanPeers, circuits |-> handlerCircuits,
       relaysFor |-> relaysFor,
       exitServices |-> exitServices, known |-> knownPeers, reap |-> peersToReap,
       prune |-> peersToPrune, csp |-> connectedServicePeers,
       cps |-> connectedPeerServices, ranges |-> partialRanges,
       pa |-> partialAffinityEnabled, root |-> rootPeers, drain |-> draining,
       out |-> connOut, calls |-> {}]

Commit(st) ==
    /\ chanMode' = st.mode
    /\ chanPeers' = st.peers
    /\ handlerCircuits' = st.circuits
    /\ relaysFor' = st.relaysFor
    /\ exitServices' = st.exitServices
    /\ knownPeers' = st.known
    /\ peersToReap' = st.reap
    /\ peersToPrune' = st.prune
    /\ connectedServicePeers' = st.csp
    /\ connectedPeerServices' = st.cps
    /\ partialRanges' = st.ranges
    /\ partialAffinityEnabled' = st.pa
    /\ rootPeers' = st.root
    /\ draining' = st.drain
    /\ connOut' = st.out

\* the record of an operation: its name, the service and host port it was
\* called with, and what it did
Op(name, s, hp, info) == [op |-> name, s |-> s, hp |-> hp, info |-> info]

(***************************************************************************)
(* The ring view (egress-nodes.js, an external collaborator).              *)
(***************************************************************************)
\* egressNodes.isExitFor(serviceName)
RingIsExitFor(s) == SelfHostPort \in exits[s]

\* the ring snapshots the model moves between
RingViews == [Services -> {Relays, Relays \ {SelfHostPort}}]

(***************************************************************************)
(* The transport (tchannel), as far as the dispatcher drives it.           *)
(***************************************************************************)
\* serviceChannel.peers.add(hostPort): the sub-channel's peer is the root
\* channel's peer, created when missing
SubPeersAdd(st, s, hp) ==
    [st EXCEPT !.peers[s] = @ \cup {hp}, !.root = @ \cup {hp}]

\* the peer kept in the tables, with its drain cleared
RootPeersKeep(st, hp) == [st EXCEPT !.drain[hp] = "none"]

\* self.channel.peers.delete(hostPort): the root table drops the peer from
\* every sub-channel and closes it
RootPeersDelete(st, hp) ==
    [st EXCEPT !.root = @ \ {hp},
               !.peers = [s \in Services |-> st.peers[s] \ {hp}],
               !.drain[hp] = "none",
               !.out[hp] = FALSE]

\* peer.drain({reason: ...}, callback)
PeerDrain(st, hp, reason) == [st EXCEPT !.drain[hp] = reason]

\* the goal of the drain begun for a reason: DRAIN_GOAL_CLOSE_PEER for an
\* unadvertisement and for a reap, DRAIN_GOAL_CLOSE_DRAINED for a prune
DrainGoal(reason) ==
    CASE reason \in {"unadvertised", "reaped"} -> "close peer"
      [] reason = "pruned" -> "close drained"
      [] OTHER -> "none"

\* the direction of the drain begun for a reason
DrainDirection(reason) ==
    CASE reason \in {"unadvertised", "reaped"} -> "both"
      [] reason = "pruned" -> "out"
      [] OTHER -> "none"

\* peer.clearDrain()
PeerClearDrain(st, hp) == [st EXCEPT !.drain[hp] = "none"]

\* peer.connectTo()
PeerConnectTo(st, hp) == [st EXCEPT !.out[hp] = TRUE]

(***************************************************************************)
(* PartialRange (partial_range.js).  The state of a range is its relays    *)
(* and its workers; the other fields are functions of them.                *)
(***************************************************************************)
\* options.minPeersPerWorker and options.minPeersPerRelay of the constructor
MinPeersPerWorker == 1
MinPeersPerRelay == 1

Min(a, b) == IF a <= b THEN a ELSE b
Max(a, b) == IF a >= b THEN a ELSE b

\* the 0-based index of x in the ascending sequence of S: indexOf
IndexOf(S, x) == Cardinality({y \in S : y < x})

\* partialRange.isValid(): this relay is among the relays
PartialRangeIsValid(pr) == SelfHostPort \in pr.relays

\* partialRange.affineWorkers: a window of `length` workers from `start`,
\* wrapping around
AffineWorkers(pr) ==
    LET W == SortedSeq(pr.workers)
        nW == Len(W)
        nR == Cardinality(pr.relays)
        relayIndex == IndexOf(pr.relays, SelfHostPort)
        length == Min(nW, Max(MinPeersPerRelay,
                              (nW * MinPeersPerWorker + nR - 1) \div nR))
        start == ((relayIndex * nW) \div nR) % nW
    IN IF nW = 0 \/ ~PartialRangeIsValid(pr) THEN {}
       ELSE {W[((start + i) % nW) + 1] : i \in 0..(length - 1)}

\* partialRange.compute(relays, workers, now): a null argument keeps the old
PartialRangeCompute(pr, relays, workers) ==
    [relays |-> IF IsNone(relays) THEN pr.relays ELSE Get(relays),
     workers |-> IF IsNone(workers) THEN pr.workers ELSE Get(workers)]

(***************************************************************************)
(* ServiceDispatchHandler: helper methods, as functions of the state.      *)
(***************************************************************************)
\* _getServicePeer(serviceChannel, hostPort)
GetServicePeer(st, s, hp) ==
    IF hp \in st.peers[s] THEN st ELSE SubPeersAdd(st, s, hp)

RECURSIVE GetServicePeers(_, _, _)
GetServicePeers(st, s, hps) ==
    IF hps = <<>> THEN st
    ELSE GetServicePeers(GetServicePeer(st, s, Head(hps)), s, Tail(hps))

\* the circuits argument of the RelayHandler createServiceChannel constructs:
\* mode === 'exit' && self.circuitsEnabled && self.circuits
HandlerCircuitsAtCreation(mode) ==
    mode = "exit" /\ circuitsEnabled /\ ~IsNone(circuits)

\* createServiceChannel leaving a forward channel without its exits
CreateServiceChannelUnpopulated(st, s) ==
    LET exitNames == IF IsNone(st.relaysFor[s]) THEN exits[s]
                     ELSE Get(st.relaysFor[s])
        mode == IF RingIsExitFor(s) THEN "exit" ELSE "forward"
    IN [st EXCEPT !.relaysFor[s] = Some(exitNames),
                  !.mode[s] = mode,
                  !.peers[s] = {},
                  !.circuits[s] = HandlerCircuitsAtCreation(mode)]

\* createServiceChannel(serviceName): the exits are read from the ring only
\* when self.relaysFor holds none for the service
CreateServiceChannel(st, s) ==
    LET exitNames == IF IsNone(st.relaysFor[s]) THEN exits[s]
                     ELSE Get(st.relaysFor[s])
        mode == IF RingIsExitFor(s) THEN "exit" ELSE "forward"
        st1 == [st EXCEPT !.relaysFor[s] = Some(exitNames),
                          !.mode[s] = mode,
                          !.peers[s] = {},
                          !.circuits[s] = HandlerCircuitsAtCreation(mode)]
    IN IF mode = "forward"
       THEN GetServicePeers(st1, s, SortedSeq(exitNames))
       ELSE st1

\* getOrCreateServiceChannel(serviceName)
GetOrCreateServiceChannel(st, s) ==
    IF st.mode[s] = "none" THEN CreateServiceChannel(st, s) ELSE st

\* ensurePeerConnected writing connectedServicePeers alone
EnsurePeerConnectedOneIndex(st, s, hp) ==
    LET st1 == IF st.pa
               THEN [st EXCEPT !.csp = addIndexEntry(@, s, hp, now)]
               ELSE st
        st2 == [st1 EXCEPT !.prune = @ \ {hp}]
    IN IF st2.out[hp] THEN st2
       ELSE PeerConnectTo(IF st2.drain[hp] # "none"
                          THEN PeerClearDrain(st2, hp) ELSE st2, hp)

\* ensurePeerConnected(serviceName, peer, reason, now)
EnsurePeerConnected(st, s, hp) ==
    LET st1 == IF st.pa
               THEN [st EXCEPT !.csp = addIndexEntry(@, s, hp, now),
                               !.cps = addIndexEntry(@, hp, s, now)]
               ELSE st
        st2 == [st1 EXCEPT !.prune = @ \ {hp}]
    IN IF st2.out[hp] THEN st2
       ELSE PeerConnectTo(IF st2.drain[hp] # "none"
                          THEN PeerClearDrain(st2, hp) ELSE st2, hp)

\* ensurePeerDisconnected deleting from connectedServicePeers alone
EnsurePeerDisconnectedOneIndex(st, s, hp) ==
    LET st1 == IF st.pa
               THEN [st EXCEPT !.csp = deleteIndexEntry(@, s, hp)]
               ELSE st
    IN IF ~HasLevel(st1.cps, hp)
       THEN [st1 EXCEPT !.prune = @ \cup {hp}]
       ELSE st1

\* ensurePeerDisconnected(serviceName, peer, reason, now); the call is noted
\* with the peer, whether peersToPrune held it already, what is left of
\* connectedPeerServices[hostPort], and whether the entry of peersToPrune is
\* written
EnsurePeerDisconnected(st, s, hp) ==
    LET st1 == IF st.pa
               THEN [st EXCEPT !.csp = deleteIndexEntry(@, s, hp),
                               !.cps = deleteIndexEntry(@, hp, s)]
               ELSE st
        peerServices == LevelKeys(st1.cps, hp)
        writes == peerServices = {}
        call == [hp |-> hp, scheduled |-> hp \in st.prune,
                 peerServices |-> peerServices, writes |-> writes]
        st2 == [st1 EXCEPT !.calls = @ \cup {call}]
    IN IF writes
       THEN [st2 EXCEPT !.prune = @ \cup {hp}]
       ELSE st2

\* deletePeerIndex(serviceName, hostPort)
DeletePeerIndex(st, s, hp) ==
    LET st1 == IF st.pa
               THEN [st EXCEPT !.csp = deleteIndexEntry(@, s, hp),
                               !.cps = deleteIndexEntry(@, hp, s)]
               ELSE st
    IN [st1 EXCEPT !.known = deleteIndexEntry(@, hp, s)]

\* getPartialRange(serviceName, reason, now): the state after it; a missing
\* range is computed from self.relaysFor and the channel's peers
GetPartialRangeState(st, s) ==
    IF s \in DOMAIN st.ranges THEN st
    ELSE [st EXCEPT !.ranges = MapPut(@, s,
              PartialRangeCompute([relays |-> {}, workers |-> {}],
                                  st.relaysFor[s], Some(st.peers[s])))]

\* getPartialRange(...) returns null: the range is not valid
GetPartialRangeIsNull(st, s) ==
    ~PartialRangeIsValid(GetPartialRangeState(st, s).ranges[s])

RECURSIVE EnsurePeersConnected(_, _, _)
EnsurePeersConnected(st, s, hps) ==
    IF hps = <<>> THEN st
    ELSE EnsurePeersConnected(
            EnsurePeerConnected(GetServicePeer(st, s, Head(hps)), s, Head(hps)),
            s, Tail(hps))

RECURSIVE EnsurePeersDisconnected(_, _, _)
EnsurePeersDisconnected(st, s, hps) ==
    IF hps = <<>> THEN st
    ELSE EnsurePeersDisconnected(
            EnsurePeerDisconnected(GetServicePeer(st, s, Head(hps)), s, Head(hps)),
            s, Tail(hps))

\* ensurePartialConnections(serviceChannel, serviceName, hostPort, reason, now):
\* the state after it and its result ("null", "noop" or "work") with isAffine
EnsurePartialConnections(st, s) ==
    LET st1 == GetPartialRangeState(st, s)
        affine == AffineWorkers(st1.ranges[s])
        connectedPeerKeys == LevelKeys(st1.csp, s)
        st2 == GetServicePeers(st1, s, SortedSeq(affine))
        toConnect == affine
        toDisconnect == {w \in connectedPeerKeys : w \notin affine /\ w \notin st2.prune}
        st3 == EnsurePeersConnected(st2, s, SortedSeq(toConnect))
        st4 == EnsurePeersDisconnected(st3, s, SortedSeq(toDisconnect))
    IN IF GetPartialRangeIsNull(st, s)
       THEN [st |-> st1, result |-> "null", isAffine |-> {}]
       ELSE IF toConnect = {} /\ toDisconnect = {}
       THEN [st |-> st2, result |-> "noop", isAffine |-> affine]
       ELSE [st |-> st4, result |-> "work", isAffine |-> affine]

\* freshenPartialPeer(peer, serviceName, now)
FreshenPartialPeer(st, s, hp) ==
    LET connected == <<s, hp>> \in st.csp
        st1 == IF connected
               THEN [st EXCEPT !.csp = addIndexEntry(@, s, hp, now),
                               !.cps = addIndexEntry(@, hp, s, now),
                               !.prune = @ \ {hp}]
               ELSE [st EXCEPT !.csp = deleteIndexEntry(@, s, hp),
                               !.cps = deleteIndexEntry(@, hp, s)]
        st2 == [st1 EXCEPT !.reap = deleteIndexEntry(@, hp, s),
                           !.known = addIndexEntry(@, hp, s, now)]
        st3 == GetPartialRangeState(st2, s)
        shouldConnect == hp \in AffineWorkers(st3.ranges[s])
        audited == IF GetPartialRangeIsNull(st2, s) \/ connected = shouldConnect
                   THEN connected
                   ELSE shouldConnect /\ now # 0
    IN IF audited
       THEN EnsurePeerConnected(st3, s, hp)
       ELSE EnsurePeerDisconnected(st3, s, hp)

\* refreshServicePeerPartially(serviceName, hostPort, now)
RefreshServicePeerPartially(st, s, hp) ==
    LET st1 == IF s \in DOMAIN st.ranges
               THEN [st EXCEPT !.ranges[s] =
                        PartialRangeCompute(@, None, Some(@.workers \cup {hp}))]
               ELSE st
        st2 == GetServicePeer(st1, s, hp)
        st3 == [st2 EXCEPT !.reap = deleteIndexEntry(@, hp, s),
                           !.known = addIndexEntry(@, hp, s, now)]
        r == EnsurePartialConnections(st3, s)
    IN IF hp \in st.peers[s] THEN FreshenPartialPeer(st, s, hp)
       ELSE IF r.result # "noop" THEN r.st
       ELSE IF hp \in r.isAffine
       THEN [r.st EXCEPT !.csp = addIndexEntry(@, s, hp, now),
                         !.cps = addIndexEntry(@, hp, s, now),
                         !.prune = @ \ {hp}]
       ELSE [r.st EXCEPT !.csp = deleteIndexEntry(@, s, hp),
                         !.cps = deleteIndexEntry(@, hp, s)]

\* refreshServicePeer without the test of the channel's mode
RefreshServicePeerInAnyMode(st, s, hp) ==
    LET st1 == GetOrCreateServiceChannel(st, s)
        st2 == [st1 EXCEPT !.exitServices = MapPut(@, s, now)]
        st3 == [st2 EXCEPT !.prune = @ \ {hp},
                           !.reap = deleteIndexEntry(@, hp, s),
                           !.known = addIndexEntry(@, hp, s, now)]
    IN IF st2.pa THEN RefreshServicePeerPartially(st2, s, hp)
       ELSE EnsurePeerConnected(GetServicePeer(st3, s, hp), s, hp)

\* refreshServicePeer(serviceName, hostPort)
RefreshServicePeerState(st, s, hp) ==
    LET st1 == GetOrCreateServiceChannel(st, s)
        st2 == [st1 EXCEPT !.exitServices = MapPut(@, s, now)]
        st3 == [st2 EXCEPT !.prune = @ \ {hp},
                           !.reap = deleteIndexEntry(@, hp, s),
                           !.known = addIndexEntry(@, hp, s, now)]
    IN IF st1.mode[s] # "exit" THEN st1
       ELSE IF st2.pa THEN RefreshServicePeerPartially(st2, s, hp)
       ELSE EnsurePeerConnected(GetServicePeer(st3, s, hp), s, hp)

\* Number(subChanKeys): an array of one or more service names, none of them a
\* numeral, converts to NaN; the empty array converts to 0
ArrayToNumber(keys) == IF Len(keys) = 0 THEN Num(0) ELSE NaN

\* the indices a loop `for (i = 0; i < bound; i++)` runs its body for,
\* shifted to the 1-based positions of the sequence `keys`
LoopPositions(keys, bound) == {i \in 1..Len(keys) : JsLess(Num(i - 1), bound)}

\* the `remain` list of removeServicePeer: the loop condition is
\* `i < subChanKeys`, the array itself and not its length
RemainingServices(st, hp) ==
    LET subChanKeys == KeySeq({s \in Services : st.mode[s] # "none"})
    IN {subChanKeys[i] : i \in {j \in LoopPositions(subChanKeys, ArrayToNumber(subChanKeys)) :
                                    hp \in st.peers[subChanKeys[j]]}}

\* removeServicePeer starting its drain over a drain of the reaper
RemoveServicePeerStateOverReap(st, s, hp) ==
    LET st1 == [st EXCEPT !.peers[s] = @ \ {hp}]
        st2 == IF s \in DOMAIN st1.ranges
               THEN [st1 EXCEPT !.ranges[s] =
                        PartialRangeCompute(@, None, Some(st1.peers[s]))]
               ELSE st1
        r == EnsurePartialConnections(st2, s)
        st3 == IF ~st1.pa THEN st1
               ELSE IF r.result = "noop"
               THEN [r.st EXCEPT !.csp = deleteIndexEntry(@, s, hp),
                                 !.cps = deleteIndexEntry(@, hp, s)]
               ELSE r.st
        remain == RemainingServices(st3, hp)
    IN IF st.mode[s] = "none" THEN st
       ELSE IF hp \notin st.root THEN st
       ELSE IF remain # {} THEN st3
       ELSE PeerDrain(st3, hp, "unadvertised")

\* removeServicePeer(serviceName, hostPort)
RemoveServicePeerState(st, s, hp) ==
    LET st1 == [st EXCEPT !.peers[s] = @ \ {hp}]
        st2 == IF s \in DOMAIN st1.ranges
               THEN [st1 EXCEPT !.ranges[s] =
                        PartialRangeCompute(@, None, Some(st1.peers[s]))]
               ELSE st1
        r == EnsurePartialConnections(st2, s)
        st3 == IF ~st1.pa THEN st1
               ELSE IF r.result = "noop"
               THEN [r.st EXCEPT !.csp = deleteIndexEntry(@, s, hp),
                                 !.cps = deleteIndexEntry(@, hp, s)]
               ELSE r.st
        remain == RemainingServices(st3, hp)
    IN IF st.mode[s] = "none" THEN st
       ELSE IF hp \notin st.root THEN st
       ELSE IF remain # {} THEN st3
       ELSE IF st3.drain[hp] = "reaped" THEN st3
       ELSE PeerDrain(st3, hp, "unadvertised")

\* changeToExit(serviceChannel)
ChangeToExit(st, s) == [st EXCEPT !.mode[s] = "exit", !.peers[s] = {}]

\* updateServiceNodes(serviceChannel, now)
UpdateServiceNodes(st, s) ==
    IF st.pa THEN EnsurePartialConnections(st, s).st ELSE st

RECURSIVE DisconnectPeers(_, _, _)
DisconnectPeers(st, s, hps) ==
    IF hps = <<>> THEN st
    ELSE DisconnectPeers(EnsurePeerDisconnected(st, s, Head(hps)), s, Tail(hps))

\* changeToForward adding the exits to the peers the channel had as an exit
ChangeToForwardKeepingPeers(st, s) ==
    LET peers == SortedSeq(st.peers[s])
        st1 == [st EXCEPT !.mode[s] = "forward"]
        st2 == DisconnectPeers(st1, s, peers)
    IN GetServicePeers(st2, s, SortedSeq(exits[s]))

\* changeToForward(exitNodes, serviceChannel, now)
ChangeToForward(st, s) ==
    LET peers == SortedSeq(st.peers[s])
        st1 == [st EXCEPT !.mode[s] = "forward", !.peers[s] = {}]
        st2 == DisconnectPeers(st1, s, peers)
    IN GetServicePeers(st2, s, SortedSeq(exits[s]))

\* updateExitNodes(exitNodes, serviceChannel)
UpdateExitNodes(st, s) ==
    LET st1 == [st EXCEPT !.peers[s] = {hp \in @ : hp \in exits[s]}]
    IN GetServicePeers(st1, s, SortedSeq(exits[s]))

\* updateServiceChannel without the change of mode: the nodes of the channel
\* are updated for the mode it already has
UpdateServiceChannelKeepingMode(st, s) ==
    LET st1 == [st EXCEPT !.relaysFor[s] = Some(exits[s])]
    IN IF st1.mode[s] = "exit" THEN UpdateServiceNodes(st1, s)
       ELSE UpdateExitNodes(st1, s)

\* updateServiceChannel(serviceChannel, now)
UpdateServiceChannel(st, s) ==
    LET st1 == [st EXCEPT !.relaysFor[s] = Some(exits[s])]
        st2 == IF st1.pa /\ s \in DOMAIN st1.ranges
               THEN [st1 EXCEPT !.ranges[s] =
                        PartialRangeCompute(@, st1.relaysFor[s], None)]
               ELSE st1
        st3 == IF st1.pa THEN [st1 EXCEPT !.ranges = MapDel(@, s)] ELSE st1
    IN IF RingIsExitFor(s)
       THEN IF st2.mode[s] = "forward" THEN ChangeToExit(st2, s)
            ELSE UpdateServiceNodes(st2, s)
       ELSE IF st3.mode[s] = "exit" THEN ChangeToForward(st3, s)
            ELSE UpdateExitNodes(st3, s)

\* updateServiceChannels(): the sub-channels that carry a serviceProxyMode,
\* in the order `serviceNames` lists them
RECURSIVE UpdateServiceChannelsState(_, _)
UpdateServiceChannelsState(st, serviceNames) ==
    IF serviceNames = <<>> THEN st
    ELSE UpdateServiceChannelsState(
            IF st.mode[Head(serviceNames)] # "none"
            THEN UpdateServiceChannel(st, Head(serviceNames)) ELSE st,
            Tail(serviceNames))

\* pruneSinglePeer draining a peer whatever drain it is in
PruneSinglePeerOverDrain(st, hp) ==
    IF hp \notin st.root THEN st
    ELSE PeerDrain(st, hp, "pruned")

\* pruneSinglePeer(hostPort, pruneInfo)
PruneSinglePeer(st, hp) ==
    IF hp \notin st.root THEN st
    ELSE IF st.drain[hp] # "none" THEN st
    ELSE PeerDrain(st, hp, "pruned")

RECURSIVE PruneEach(_, _)
PruneEach(st, hps) ==
    IF hps = <<>> THEN st
    ELSE PruneEach(PruneSinglePeer(st, Head(hps)), Tail(hps))

\* serviceNames.length in reapSinglePeer: the value the interval scan hands
\* over is the index level peersToReap[hostPort], an object keyed by service
\* name, and an object has no length
ServiceNamesLength(serviceNames) == Undefined

\* the body of the loop of reapSinglePeer, for one service name; the state
\* and whether partialRange.removeWorker threw on a missing range
ReapLoopBody(st, hp, s) ==
    LET st1 == IF st.mode[s] # "none"
               THEN [st EXCEPT !.peers[s] = @ \ {hp}] ELSE st
        st2 == DeletePeerIndex(st1, s, hp)
    IN IF s \in DOMAIN st2.ranges
       THEN [st |-> [st2 EXCEPT !.ranges[s] =
                        PartialRangeCompute(@, None, Some(@.workers \ {hp}))],
             threw |-> FALSE]
       ELSE [st |-> st2, threw |-> TRUE]

RECURSIVE ReapLoop(_, _, _)
ReapLoop(st, hp, names) ==
    IF names = <<>> THEN [st |-> st, threw |-> FALSE]
    ELSE LET r == ReapLoopBody(st, hp, Head(names))
         IN IF r.threw THEN r ELSE ReapLoop(r.st, hp, Tail(names))

\* reapSinglePeer(hostPort, serviceNames, now)
ReapSinglePeer(st, hp, serviceNames) ==
    LET names == KeySeq(serviceNames)
        iterated == [i \in LoopPositions(names, ServiceNamesLength(serviceNames)) |-> names[i]]
        st1 == IF st.drain[hp] = "pruned" THEN PeerClearDrain(st, hp) ELSE st
        r == ReapLoop(st1, hp, iterated)
    IN IF HasLevel(st.known, hp) THEN [st |-> st, threw |-> FALSE]
       ELSE IF hp \notin st.root THEN [st |-> st, threw |-> FALSE]
       ELSE IF st.drain[hp] \notin {"none", "pruned"} THEN [st |-> st, threw |-> FALSE]
       ELSE IF r.threw THEN r
       ELSE [st |-> PeerDrain(r.st, hp, "reaped"), threw |-> FALSE]

\* the peer reaper's run over the collection getPeersToReap returned
RECURSIVE ReapEach(_, _, _)
ReapEach(st, collection, hps) ==
    IF hps = <<>> THEN st
    ELSE LET r == ReapSinglePeer(st, Head(hps), LevelKeys(collection, Head(hps)))
         IN IF r.threw THEN r.st ELSE ReapEach(r.st, collection, Tail(hps))

\* getPeersToReap() rolling over without emptying knownPeers
GetPeersToReapKeepingKnown(st) == [st EXCEPT !.reap = st.known]

\* getPeersToReap(): the collection handed to the run, and the roll-over
GetPeersToReap(st) == [st EXCEPT !.reap = st.known, !.known = {}]

(***************************************************************************)
(* The dispatcher's operations on advertisements and peers.                *)
(***************************************************************************)
\* relay-ad: HyperbahnHandler.advertise -> refreshServicePeer(s, hp)
Advertise(s, hp) ==
    /\ LET st == RefreshServicePeerState(St, s, hp)
       IN /\ Commit(st)
          /\ lastOp' = Op("refreshServicePeer", s, hp, st.calls)
    /\ UNCHANGED <<now, ringVars, blockVars, rateVars, outcome, relayVars, discovery, circuitVars>>

\* relay-unad: HyperbahnHandler.unadvertise -> removeServicePeer(s, hp)
Unadvertise(s, hp) ==
    /\ LET st == RemoveServicePeerState(St, s, hp)
       IN /\ Commit(st)
          /\ lastOp' = Op("removeServicePeer", s, hp, st.calls)
    /\ UNCHANGED <<now, ringVars, blockVars, rateVars, outcome, relayVars, discovery, circuitVars>>

\* what the reaper's run logs about the drains it meets: 'peer reaper
\* canceling peer prune drain' and 'skipping peer reap due to unknown drain
\* state', each for a peer of the collection that the transport table holds
ReapLogs ==
    {[hp |-> hp, log |-> IF draining[hp] = "pruned" THEN "canceling" ELSE "skipping"]
     : hp \in {x \in IndexKeys(peersToReap) \cap rootPeers : draining[x] # "none"}}

\* what the pruner's run logs: 'skipping peer prune drain, already draining'
PruneLogs ==
    {[hp |-> hp, log |-> "skipping"]
     : hp \in {x \in peersToPrune \cap rootPeers : draining[x] # "none"}}

\* a tick of the peer reaper: getPeersToReap, then reapSinglePeer for each
\* host port of the collection
ReapTick ==
    /\ Commit(ReapEach(GetPeersToReap(St), peersToReap,
                       SortedSeq(IndexKeys(peersToReap))))
    /\ lastOp' = Op("reap", "", 0, ReapLogs)
    /\ UNCHANGED <<now, ringVars, blockVars, rateVars, outcome, relayVars, discovery, circuitVars>>

\* a tick of the peer pruner: getPeersToPrune, then pruneSinglePeer for each
PruneTick ==
    /\ Commit(PruneEach([St EXCEPT !.prune = {}], SortedSeq(peersToPrune)))
    /\ lastOp' = Op("prune", "", 0, PruneLogs)
    /\ UNCHANGED <<now, ringVars, blockVars, rateVars, outcome, relayVars, discovery, circuitVars>>

\* self.servicePurgePeriod: read by maybePurgeEachService, assigned nowhere
servicePurgePeriod == Undefined

\* the condition of maybePurgeEachService(serviceName, lastRefresh)
ShouldPurge(lastRefresh) == JsGreater(Num(now - lastRefresh), servicePurgePeriod)

\* a tick of the service purger: maybePurgeEachService for each exit service
PurgeTick ==
    LET purged == {s \in DOMAIN exitServices : ShouldPurge(exitServices[s])}
        closed == {s \in purged : chanMode[s] # "none"}
    IN /\ exitServices' = [s \in DOMAIN exitServices \ purged |-> exitServices[s]]
       /\ chanMode' = [s \in Services |-> IF s \in closed THEN "none" ELSE chanMode[s]]
       /\ chanPeers' = [s \in Services |-> IF s \in closed THEN {} ELSE chanPeers[s]]
       /\ handlerCircuits' = [s \in Services |->
                                 IF s \in closed THEN FALSE ELSE handlerCircuits[s]]
       /\ serviceRps' = [s \in DOMAIN serviceRps \ closed |-> serviceRps[s]]
       /\ ksRps' = [s \in DOMAIN ksRps \ closed |-> ksRps[s]]
       /\ lastOp' = Op("purge", "", 0, {})
       /\ UNCHANGED <<now, ringVars, relaysFor, knownPeers, peersToReap, peersToPrune,
                      connectedServicePeers, connectedPeerServices, partialRanges,
                      partialAffinityEnabled, rootPeers, draining, connOut,
                      blockVars, rateLimiterEnabled, totalRps, ksTotalRps, edgeRps,
                      limitVars, outcome, relayVars, discovery, circuitVars>>

\* the transport finishes (or times out) the drain of a peer and calls the
\* callback handed to peer.drain: thenDeleteIt, or thenResetPeer after a prune;
\* an error, the timeout among them, is logged and changes nothing else
DrainDone(hp) ==
    /\ hp \in rootPeers
    /\ draining[hp] # "none"
    /\ Commit(IF draining[hp] = "pruned"
              THEN [PeerClearDrain(St, hp) EXCEPT !.out[hp] = FALSE]
              ELSE RootPeersDelete(St, hp))
    /\ \E err \in {"error", "null"} :
          lastOp' = Op("drainDone", draining[hp], hp, {err})
    /\ UNCHANGED <<now, ringVars, blockVars, rateVars, outcome, relayVars, discovery, circuitVars>>

\* the ring's membership shifts: onEgressNodesChanged schedules the update
RingChange(e) ==
    /\ e # exits
    /\ exits' = e
    /\ updateScheduled' = TRUE
    /\ lastOp' = Op("ringChanged", "", 0, {})
    /\ UNCHANGED <<now, dispatchVars, blockVars, rateVars, outcome, relayVars, discovery, circuitVars>>

\* the services whose channel has the mode of the ring
ModesInLine(mode) ==
    {s \in Services : mode[s] = IF RingIsExitFor(s) THEN "exit" ELSE "forward"}

\* Circuits.prototype.updateServices(): the keys of circuitsByServiceName are
\* handed to egressNodes.isExitFor as they are
updateServices(registry) ==
    [c \in {k \in DOMAIN registry : RingIsExitFor(k[1])} |-> registry[c]]

\* updateServiceChannels(), run by setImmediate after a ring change; it ends
\* with circuits.updateServices() when there are circuits
UpdateServiceChannels ==
    /\ updateScheduled
    /\ \E serviceNames \in {q \in [1..Cardinality(Services) -> Services] :
                               \A s \in Services : \E i \in DOMAIN q : q[i] = s} :
          Commit(UpdateServiceChannelsState(St, serviceNames))
    /\ updateScheduled' = FALSE
    /\ circuits' = IF IsNone(circuits) THEN circuits
                   ELSE Some(updateServices(Get(circuits)))
    /\ lastOp' = Op("updateServiceChannels", "", 0,
                    {s \in Services : chanMode[s] # "none"} \ ModesInLine(chanMode))
    /\ UNCHANGED <<now, exits, blockVars, rateVars, outcome, relayVars, discovery,
                   circuitsEnabled, circuitResult>>

\* time passes
Tick ==
    /\ now < MaxTime
    /\ now' = now + 1
    /\ lastOp' = Op("tick", "", 0, {})
    /\ UNCHANGED <<ringVars, dispatchVars, blockVars, rateVars, outcome, relayVars, discovery, circuitVars>>

\* setPartialAffinityEnabled(enabled): the ranges and both indices of the
\* connected peers start empty again
setPartialAffinityEnabled(enabled) ==
    /\ Commit([St EXCEPT !.pa = enabled, !.ranges = <<>>, !.csp = {}, !.cps = {}])
    /\ lastOp' = Op("setPartialAffinityEnabled", "", 0, {enabled})
    /\ UNCHANGED <<now, ringVars, blockVars, rateVars, outcome, relayVars, discovery, circuitVars>>

(***************************************************************************)
(* Blocking tables.                                                        *)
(***************************************************************************)
CallerNames == {"alice", "mallory"}

\* a missing caller name, service name or routing delegate
Missing == ""

\* cn = cn || '*'
OrStar(name) == IF name = Missing THEN "*" ELSE name

\* cn + '~~' + serviceName
EdgeKey(cn, serviceName) == cn \o "~~" \o serviceName

\* the three keys isBlocked looks up in a table
BlockKeys(cn, serviceName) ==
    {EdgeKey(OrStar(cn), OrStar(serviceName)),
     EdgeKey("*", OrStar(serviceName)),
     EdgeKey(OrStar(cn), "*")}

\* table && (table[k1] || table[k2] || table[k3])
TableBlocks(table, cn, serviceName) ==
    ~IsNone(table) /\ BlockKeys(cn, serviceName) \cap Get(table) # {}

\* isBlocked(cn, serviceName)
isBlocked(cn, serviceName) ==
    \/ TableBlocks(blockingTable, cn, serviceName)
    \/ TableBlocks(blockingTableRemoteConfig, cn, serviceName)

\* the table after block / blockRemoteConfig: it is created before the
\* assertion that one of the two names is given, which throws for '*~~*'
TableAfterBlock(table, cn, serviceName) ==
    LET created == IF IsNone(table) THEN {} ELSE Get(table)
    IN IF OrStar(cn) = "*" /\ OrStar(serviceName) = "*"
       THEN Some(created)
       ELSE Some(created \cup {EdgeKey(OrStar(cn), OrStar(serviceName))})

\* block(cn, serviceName)
block(cn, serviceName) ==
    /\ blockingTable' = TableAfterBlock(blockingTable, cn, serviceName)
    /\ lastOp' = Op("block", "", 0, {})
    /\ UNCHANGED <<now, ringVars, dispatchVars, blockingTableRemoteConfig,
                   rateVars, outcome, relayVars, discovery, circuitVars>>

\* unblock(cn, serviceName)
unblock(cn, serviceName) ==
    LET left == Get(blockingTable) \ {EdgeKey(OrStar(cn), OrStar(serviceName))}
    IN /\ blockingTable' = IF IsNone(blockingTable) THEN None
                           ELSE IF left = {} THEN None ELSE Some(left)
       /\ lastOp' = Op("unblock", "", 0, {})
       /\ UNCHANGED <<now, ringVars, dispatchVars, blockingTableRemoteConfig,
                      rateVars, outcome, relayVars, discovery, circuitVars>>

\* blockRemoteConfig(cn, serviceName)
blockRemoteConfig(cn, serviceName) ==
    /\ blockingTableRemoteConfig' =
          TableAfterBlock(blockingTableRemoteConfig, cn, serviceName)
    /\ lastOp' = Op("blockRemoteConfig", "", 0, {})
    /\ UNCHANGED <<now, ringVars, dispatchVars, blockingTable, rateVars, outcome,
                   relayVars, discovery, circuitVars>>

\* unblockAllRemoteConfig()
unblockAllRemoteConfig ==
    /\ blockingTableRemoteConfig' = None
    /\ lastOp' = Op("unblockAllRemoteConfig", "", 0, {})
    /\ UNCHANGED <<now, ringVars, dispatchVars, blockingTable, rateVars, outcome,
                   relayVars, discovery, circuitVars>>

\* the keys of a blocking table, none when the table is null
TableKeys(table) == IF IsNone(table) THEN {} ELSE Get(table)

\* a kill-switch entry of remote config is a string; the model writes it as
\* the sequence of its pieces, the separator '~~' being a piece of its own
Separator == "~~"

\* the entries a kill-switch list of the model is made of: 'alice~~steve',
\* '~~steve', '*~~*', '~~' and 'alice'
KillSwitchValues ==
    {<<"alice", Separator, "steve">>, <<Separator, "steve">>,
     <<"*", Separator, "*">>, <<Separator>>, <<"alice">>}

MaxKillSwitches == 2

KillSwitchLists ==
    UNION {[1..n -> KillSwitchValues] : n \in 0..MaxKillSwitches}

\* value.split('~~'): the strings between the separators
RECURSIVE Split(_)
Split(value) ==
    IF value = <<>> THEN <<"">>
    ELSE LET rest == Split(Tail(value))
         IN IF Head(value) = Separator THEN <<"">> \o rest
            ELSE <<Head(value) \o Head(rest)>> \o Tail(rest)

\* the loop of updateKillSwitches from entry i on: an entry of two parts
\* other than '*~~*' goes to blockRemoteConfig, whose assertion ends the
\* update when both parts are empty or '*'
RECURSIVE BlockKillSwitches(_, _, _)
BlockKillSwitches(table, killSwitches, i) ==
    IF i > Len(killSwitches) THEN [table |-> table, threw |-> FALSE]
    ELSE LET value == killSwitches[i]
             edge == Split(value)
         IN IF Len(edge) = 2 /\ value # <<"*", Separator, "*">>
            THEN IF OrStar(edge[1]) = "*" /\ OrStar(edge[2]) = "*"
                 THEN [table |-> TableAfterBlock(table, edge[1], edge[2]),
                       threw |-> TRUE]
                 ELSE BlockKillSwitches(TableAfterBlock(table, edge[1], edge[2]),
                                        killSwitches, i + 1)
            ELSE BlockKillSwitches(table, killSwitches, i + 1)

\* updateKillSwitches() with remote config holding the list killSwitches
updateKillSwitches(killSwitches) ==
    LET r == BlockKillSwitches(None, killSwitches, 1)
    IN /\ blockingTableRemoteConfig' = r.table
       /\ lastOp' = Op("updateKillSwitches", "", 0,
                       {[killSwitches |-> killSwitches, threw |-> r.threw]})
       /\ UNCHANGED <<now, ringVars, dispatchVars, blockingTable, rateVars, outcome,
                      relayVars, discovery, circuitVars>>

(***************************************************************************)
(* The rate limiter.  Its counters are sliding windows; the model keeps    *)
(* the rps of each, and lets a whole window pass at once.  No modelled     *)
(* service is on the list of exempt services.                              *)
(***************************************************************************)
MaxRequests == 6

TotalRpsLimit == 2
DefaultServiceRpsLimit == 1
DefaultTotalKillSwitchBuffer == 2

\* the rate limiter's counters, as one value
RL == [total |-> totalRps, service |-> serviceRps,
       ksTotal |-> ksTotalRps, ks |-> ksRps, edge |-> edgeRps,
       totalLimit |-> totalRpsLimit, serviceLimit |-> rpsLimitForServiceName]

CommitRL(rl) ==
    /\ totalRps' = rl.total
    /\ serviceRps' = rl.service
    /\ ksTotalRps' = rl.ksTotal
    /\ ksRps' = rl.ks
    /\ edgeRps' = rl.edge

\* counters[key].rps, 0 for a counter that does not exist
Rps(counters, key) == IF key \in DOMAIN counters THEN counters[key] ELSE 0

\* counters[key].increment(), creating the counter where the limiter does
Increment(counters, key) == MapPut(counters, key, Rps(counters, key) + 1)

\* createServiceCounter / createKillSwitchServiceCounter
CreateCounter(counters, key) ==
    IF key \in DOMAIN counters THEN counters ELSE MapPut(counters, key, 0)

\* the rps limit of a service: its own, or the default
ServiceLimit(rl, serviceName) ==
    IF serviceName \in DOMAIN rl.serviceLimit THEN rl.serviceLimit[serviceName]
    ELSE DefaultServiceRpsLimit

shouldKillSwitchTotalRequest(rl) ==
    rl.ksTotal > DefaultTotalKillSwitchBuffer * rl.totalLimit

shouldKillSwitchService(rl, serviceName) ==
    Rps(rl.ks, serviceName) > DefaultTotalKillSwitchBuffer * ServiceLimit(rl, serviceName)

\* shouldRateLimitTotalRequest answering for a counter that has reached the
\* limit as for one above it
shouldRateLimitTotalRequestAtLimit(rl) == rl.total >= rl.totalLimit

shouldRateLimitTotalRequest(rl) == rl.total > rl.totalLimit

shouldRateLimitService(rl, serviceName) ==
    Rps(rl.service, serviceName) > ServiceLimit(rl, serviceName)

\* the sum of the rps of the counters with the keys K
RECURSIVE SumRps(_, _)
SumRps(counters, K) ==
    IF K = {} THEN 0
    ELSE LET k == CHOOSE x \in K : TRUE
         IN counters[k] + SumRps(counters, K \ {k})

\* the requests counted in the current window: each one is on an edge counter
RequestsInWindow == SumRps(edgeRps, DOMAIN edgeRps)

RATE_LIMIT_TOTAL == "total"
RATE_LIMIT_SERVICE == "service"
RATE_LIMIT_KILLSWITCH == "killswitch"

\* cn + '~~' + serviceName for a caller name that may be undefined
CnString(cn) == IF cn = Missing THEN "undefined" ELSE cn

\* isExitFor(serviceName) of the dispatcher: the mode of the service channel,
\* and the ring's word when there is no channel
isExitFor(st, serviceName) ==
    IF st.mode[serviceName] = "none" THEN RingIsExitFor(serviceName)
    ELSE st.mode[serviceName] = "exit"

\* rateLimit with the service check ahead of the total check
RateLimitServiceFirst(rl, isExitNode, cn, serviceName) ==
    LET rl1 == [rl EXCEPT !.edge = Increment(@, EdgeKey(CnString(cn), serviceName))]
        rl2 == IF isExitNode
               THEN [rl1 EXCEPT !.service = CreateCounter(@, serviceName),
                                !.ks = CreateCounter(@, serviceName)]
               ELSE rl1
        rl3 == [rl2 EXCEPT !.ksTotal = @ + 1,
                           !.ks = IF isExitNode THEN Increment(@, serviceName) ELSE @]
        rl4 == [rl3 EXCEPT !.total = @ + 1,
                           !.service = IF isExitNode THEN Increment(@, serviceName) ELSE @]
    IN IF shouldKillSwitchTotalRequest(rl2)
          \/ (isExitNode /\ shouldKillSwitchService(rl2, serviceName))
       THEN [reason |-> RATE_LIMIT_KILLSWITCH, rl |-> rl2]
       ELSE IF isExitNode /\ shouldRateLimitService(rl3, serviceName)
       THEN [reason |-> RATE_LIMIT_SERVICE, rl |-> rl3]
       ELSE IF shouldRateLimitTotalRequest(rl3)
       THEN [reason |-> RATE_LIMIT_TOTAL, rl |-> rl3]
       ELSE [reason |-> "", rl |-> rl4]

\* rateLimit with the kill-switch counters incremented ahead of their check
RateLimitCountingFirst(rl, isExitNode, cn, serviceName) ==
    LET rl1 == [rl EXCEPT !.edge = Increment(@, EdgeKey(CnString(cn), serviceName))]
        rl2 == IF isExitNode
               THEN [rl1 EXCEPT !.service = CreateCounter(@, serviceName),
                                !.ks = CreateCounter(@, serviceName)]
               ELSE rl1
        rl3 == [rl2 EXCEPT !.ksTotal = @ + 1,
                           !.ks = IF isExitNode THEN Increment(@, serviceName) ELSE @]
        rl4 == [rl3 EXCEPT !.total = @ + 1,
                           !.service = IF isExitNode THEN Increment(@, serviceName) ELSE @]
    IN IF shouldKillSwitchTotalRequest(rl2)
          \/ (isExitNode /\ shouldKillSwitchService(rl2, serviceName))
       THEN [reason |-> RATE_LIMIT_KILLSWITCH, rl |-> rl3]
       ELSE IF shouldRateLimitTotalRequest(rl3)
       THEN [reason |-> RATE_LIMIT_TOTAL, rl |-> rl3]
       ELSE IF isExitNode /\ shouldRateLimitService(rl3, serviceName)
       THEN [reason |-> RATE_LIMIT_SERVICE, rl |-> rl3]
       ELSE [reason |-> "", rl |-> rl4]

\* rateLimit(cn, serviceName): the reason it returns and the counters it leaves
rateLimit(rl, isExitNode, cn, serviceName) ==
    LET rl1 == [rl EXCEPT !.edge = Increment(@, EdgeKey(CnString(cn), serviceName))]
        rl2 == IF isExitNode
               THEN [rl1 EXCEPT !.service = CreateCounter(@, serviceName),
                                !.ks = CreateCounter(@, serviceName)]
               ELSE rl1
        rl3 == [rl2 EXCEPT !.ksTotal = @ + 1,
                           !.ks = IF isExitNode THEN Increment(@, serviceName) ELSE @]
        rl4 == [rl3 EXCEPT !.total = @ + 1,
                           !.service = IF isExitNode THEN Increment(@, serviceName) ELSE @]
    IN IF shouldKillSwitchTotalRequest(rl2)
          \/ (isExitNode /\ shouldKillSwitchService(rl2, serviceName))
       THEN [reason |-> RATE_LIMIT_KILLSWITCH, rl |-> rl2]
       ELSE IF shouldRateLimitTotalRequest(rl3)
       THEN [reason |-> RATE_LIMIT_TOTAL, rl |-> rl3]
       ELSE IF isExitNode /\ shouldRateLimitService(rl3, serviceName)
       THEN [reason |-> RATE_LIMIT_SERVICE, rl |-> rl3]
       ELSE [reason |-> "", rl |-> rl4]

\* enableRateLimiter()
enableRateLimiter ==
    /\ ~rateLimiterEnabled
    /\ rateLimiterEnabled' = TRUE
    /\ lastOp' = Op("enableRateLimiter", "", 0, {})
    /\ UNCHANGED <<now, ringVars, dispatchVars, blockVars, totalRps, serviceRps,
                   ksTotalRps, ksRps, edgeRps, limitVars, outcome, relayVars, discovery,
                   circuitVars>>

\* disableRateLimiter()
disableRateLimiter ==
    /\ rateLimiterEnabled
    /\ rateLimiterEnabled' = FALSE
    /\ lastOp' = Op("disableRateLimiter", "", 0, {})
    /\ UNCHANGED <<now, ringVars, dispatchVars, blockVars, totalRps, serviceRps,
                   ksTotalRps, ksRps, edgeRps, limitVars, outcome, relayVars, discovery,
                   circuitVars>>

\* a whole window passes with no request: every bucket of every counter
\* rotates out, and the counters stay
WindowPasses ==
    /\ RequestsInWindow > 0
    /\ totalRps' = 0
    /\ ksTotalRps' = 0
    /\ serviceRps' = [s \in DOMAIN serviceRps |-> 0]
    /\ ksRps' = [s \in DOMAIN ksRps |-> 0]
    /\ edgeRps' = [k \in DOMAIN edgeRps |-> 0]
    /\ lastOp' = Op("windowPasses", "", 0, {})
    /\ UNCHANGED <<now, ringVars, dispatchVars, blockVars, rateLimiterEnabled,
                   limitVars, outcome, relayVars, discovery, circuitVars>>

\* the limits remote config can set
RpsLimits == 1..3

\* rateLimiter.updateTotalLimit(limit): the limit is replaced, in place
updateTotalLimit(limit) ==
    /\ totalRpsLimit' = limit
    /\ lastOp' = Op("updateTotalLimit", "", limit, {})
    /\ UNCHANGED <<now, ringVars, dispatchVars, blockVars, rateLimiterEnabled, totalRps,
                   serviceRps, ksTotalRps, ksRps, edgeRps, rpsLimitForServiceName,
                   outcome, relayVars, discovery, circuitVars>>

\* rateLimiter.updateServiceLimit(serviceName, limit)
updateServiceLimit(serviceName, limit) ==
    /\ rpsLimitForServiceName' = MapPut(rpsLimitForServiceName, serviceName, limit)
    /\ lastOp' = Op("updateServiceLimit", serviceName, limit, {})
    /\ UNCHANGED <<now, ringVars, dispatchVars, blockVars, rateLimiterEnabled, totalRps,
                   serviceRps, ksTotalRps, ksRps, edgeRps, totalRpsLimit,
                   outcome, relayVars, discovery, circuitVars>>

(***************************************************************************)
(* Dispatch of a request: handleRequest and handleLazily.                  *)
(***************************************************************************)
\* what a request was answered with: the path it came by, its cn header, its
\* service name, its rd header, the result, and the service channel that was
\* handed the request
Answer(path, cn, sn, rd, result, channel) ==
    [path |-> path, cn |-> cn, sn |-> sn, rd |-> rd, result |-> result,
     channel |-> channel]

NoRequest == Answer("", "", "", "", "none", "")

\* routingDelegate || serviceName
NextService(sn, rd) == IF rd # Missing THEN rd ELSE sn

\* the dispatch getting the channel of the service before it asks the rate
\* limiter
RateLimitAndDispatchCreatingFirst(path, cn, sn, rd) ==
    LET nextService == NextService(sn, rd)
        r == rateLimit(RL, isExitFor(St, nextService), cn, nextService)
        reason == IF rateLimiterEnabled THEN r.reason ELSE ""
        result == IF reason = RATE_LIMIT_KILLSWITCH THEN "popped: killswitch"
                  ELSE IF reason = RATE_LIMIT_TOTAL THEN "Busy: total"
                  ELSE IF reason = RATE_LIMIT_SERVICE THEN "Busy: service"
                  ELSE "dispatched"
    IN /\ IF rateLimiterEnabled THEN CommitRL(r.rl)
          ELSE UNCHANGED <<totalRps, serviceRps, ksTotalRps, ksRps, edgeRps>>
       /\ IF chanMode[nextService] = "none"
          THEN Commit(CreateServiceChannel(St, nextService))
          ELSE UNCHANGED dispatchVars
       /\ outcome' = Answer(path, cn, sn, rd, result,
                            IF reason = "" THEN nextService ELSE "")

\* the part of both handlers from the rate limiter on: the reason of the rate
\* limiter decides, and an admitted request goes to the service channel of
\* nextService, which is created when missing
RateLimitAndDispatch(path, cn, sn, rd) ==
    LET nextService == NextService(sn, rd)
        r == rateLimit(RL, isExitFor(St, nextService), cn, nextService)
        reason == IF rateLimiterEnabled THEN r.reason ELSE ""
        result == IF reason = RATE_LIMIT_KILLSWITCH THEN "popped: killswitch"
                  ELSE IF reason = RATE_LIMIT_TOTAL THEN "Busy: total"
                  ELSE IF reason = RATE_LIMIT_SERVICE THEN "Busy: service"
                  ELSE "dispatched"
    IN /\ IF rateLimiterEnabled THEN CommitRL(r.rl)
          ELSE UNCHANGED <<totalRps, serviceRps, ksTotalRps, ksRps, edgeRps>>
       /\ IF reason = "" /\ chanMode[nextService] = "none"
          THEN Commit(CreateServiceChannel(St, nextService))
          ELSE UNCHANGED dispatchVars
       /\ outcome' = Answer(path, cn, sn, rd, result,
                            IF reason = "" THEN nextService ELSE "")

\* handleRequest(req, buildRes): the eager path
handleRequest(cn, sn, rd) ==
    /\ RequestsInWindow < MaxRequests
    /\ IF sn = Missing
       THEN /\ outcome' = Answer("eager", cn, sn, rd, "BadRequest", "")
            /\ UNCHANGED <<dispatchVars, totalRps, serviceRps, ksTotalRps, ksRps, edgeRps>>
       ELSE IF isBlocked(cn, NextService(sn, rd))
       THEN /\ outcome' = Answer("eager", cn, sn, rd, "popped: blocked", "")
            /\ UNCHANGED <<dispatchVars, totalRps, serviceRps, ksTotalRps, ksRps, edgeRps>>
       ELSE RateLimitAndDispatch("eager", cn, sn, rd)
    /\ lastOp' = Op("handleRequest", sn, 0, {})
    /\ UNCHANGED <<now, ringVars, blockVars, rateLimiterEnabled, limitVars, relayVars,
                   discovery, circuitVars>>

\* handleLazily(conn, reqFrame): the lazy path
handleLazily(cn, sn, rd) ==
    /\ RequestsInWindow < MaxRequests
    /\ IF sn = Missing \/ cn = Missing
       THEN /\ outcome' = Answer("lazy", cn, sn, rd, "BadRequest", "")
            /\ UNCHANGED <<dispatchVars, totalRps, serviceRps, ksTotalRps, ksRps, edgeRps>>
       ELSE IF isBlocked(cn, sn)
       THEN /\ outcome' = Answer("lazy", cn, sn, rd, "popped: blocked", "")
            /\ UNCHANGED <<dispatchVars, totalRps, serviceRps, ksTotalRps, ksRps, edgeRps>>
       ELSE RateLimitAndDispatch("lazy", cn, sn, rd)
    /\ lastOp' = Op("handleLazily", sn, 0, {})
    /\ UNCHANGED <<now, ringVars, blockVars, rateLimiterEnabled, limitVars, relayVars,
                   discovery, circuitVars>>

(***************************************************************************)
(* HyperbahnHandler: the fan-out of an ad or an unad to the exits.  One    *)
(* ad or unad is followed from its arrival to its response.                *)
(***************************************************************************)
MAX_RELAY_AD_ATTEMPTS == 2

\* the longest list of services of an ad or an unad
MaxServices == 2

\* the exits with a sendRelay that has not called back
InProgress == {h \in Relays : relayPhase[h] \notin {"idle", "finished"}}

\* a service of arg3.services as the client sent it
Service(serviceName, hostPort) == [serviceName |-> serviceName, hostPort |-> hostPort]

\* the services left with the hostPort the client wrote
StampNothing(services, remoteName) == services

\* service.hostPort = req.connection.remoteName, for every service of the list
Stamp(services, remoteName) ==
    [i \in 1..Len(services) |-> Service(services[i].serviceName, remoteName)]

\* servicesByExitNode: for each exit, the services it is an exit for, in the
\* order of the list; a service with an empty name is skipped
ServicesByExitNode(services) ==
    [h \in Relays |->
        LET RelayedTo(service) == /\ service.serviceName # Missing
                                  /\ h \in exits[service.serviceName]
        IN SelectSeq(services, RelayedTo)]

\* Object.keys(servicesByExitNode): the exits of the services with a name
ExitNodeKeys(services) ==
    {h \in Relays : ServicesByExitNode(services)[h] # <<>>}

\* onFinish answers the ad on every call
onFinishAtOnce(count, connectionCount, response) ==
    [counter |-> count - 1, response |-> Some(connectionCount)]

\* onFinish() of sendRelays: cb is called when the counter reaches zero
onFinish(count, connectionCount, response) ==
    [counter |-> count - 1,
     response |-> IF count - 1 = 0 THEN Some(connectionCount) ELSE response]

\* sendRelays(req, arg2, arg3, endpoint, cb): a sendRelay per exit, each
\* making its first attempt, then the handler's own onFinish()
sendRelays(remoteName, services) ==
    LET stamped == Stamp(services, remoteName)
        servicesByExitNode == ServicesByExitNode(stamped)
        exitNodeKeys == ExitNodeKeys(stamped)
        done == onFinish(1 + Cardinality(exitNodeKeys), Cardinality(exitNodeKeys), None)
    IN /\ InProgress = {}
       /\ inreq' = [remoteName |-> remoteName, services |-> stamped]
       /\ relayServices' = servicesByExitNode
       /\ relayPhase' = [h \in Relays |-> IF h \in exitNodeKeys
                                          THEN "identifying" ELSE "idle"]
       /\ attempts' = [h \in Relays |-> IF h \in exitNodeKeys THEN 1 ELSE 0]
       /\ relayDone' = [h \in Relays |-> <<>>]
       /\ counter' = done.counter
       /\ adResponse' = done.response
       /\ lastOp' = Op("sendRelays", "", remoteName,
                       {services[i].serviceName : i \in 1..Len(services)})
       /\ UNCHANGED <<now, ringVars, dispatchVars, blockVars, rateVars, outcome, discovery, circuitVars>>

\* callback(null, null) of sendRelay for exit h, which is onFinish
RelayCallback(h, logged) ==
    LET done == onFinish(counter, Cardinality({x \in Relays : relayPhase[x] # "idle"}),
                         adResponse)
    IN /\ relayPhase' = [relayPhase EXCEPT ![h] = "finished"]
       /\ relayDone' = [relayDone EXCEPT
                           ![h] = Append(@, [err |-> "null", logged |-> logged])]
       /\ counter' = done.counter
       /\ adResponse' = done.response
       /\ UNCHANGED <<attempts, inreq, relayServices>>

\* onResponse handing the callback the error it ends on
onResponsePassingError(h, kind) ==
    IF attempts[h] <= MAX_RELAY_AD_ATTEMPTS /\ kind \in {"NetworkError", "Timeout"}
    THEN /\ relayPhase' = [relayPhase EXCEPT ![h] = "retrying"]
         /\ UNCHANGED <<attempts, counter, adResponse, inreq, relayServices, relayDone>>
    ELSE LET done == onFinish(counter,
                              Cardinality({x \in Relays : relayPhase[x] # "idle"}),
                              adResponse)
         IN /\ relayPhase' = [relayPhase EXCEPT ![h] = "finished"]
            /\ relayDone' = [relayDone EXCEPT
                                ![h] = Append(@, [err |-> IF kind \in {"ok", "notOk"}
                                                           THEN "null" ELSE kind,
                                                  logged |-> kind # "ok"])]
            /\ counter' = done.counter
            /\ adResponse' = done.response
            /\ UNCHANGED <<attempts, inreq, relayServices>>

\* onResponse starting the next attempt at once, without the retry timer
onResponseRetryingAtOnce(h, kind) ==
    IF kind = "ok" THEN RelayCallback(h, FALSE)
    ELSE IF attempts[h] <= MAX_RELAY_AD_ATTEMPTS /\ kind \in {"NetworkError", "Timeout"}
    THEN /\ relayPhase' = [relayPhase EXCEPT ![h] = "identifying"]
         /\ attempts' = [attempts EXCEPT ![h] = @ + 1]
         /\ UNCHANGED <<counter, adResponse, inreq, relayServices, relayDone>>
    ELSE RelayCallback(h, TRUE)

\* onResponse(err, response) of sendRelay: done on an ok response; another
\* attempt is scheduled on a network error or a timeout while
\* attempts <= maxRelayAdAttempts; any other error, or a response that is
\* not ok, is logged, and done
onResponse(h, kind) ==
    IF kind = "ok" THEN RelayCallback(h, FALSE)
    ELSE IF attempts[h] <= MAX_RELAY_AD_ATTEMPTS /\ kind \in {"NetworkError", "Timeout"}
    THEN /\ relayPhase' = [relayPhase EXCEPT ![h] = "retrying"]
         /\ UNCHANGED <<attempts, counter, adResponse, inreq, relayServices, relayDone>>
    ELSE RelayCallback(h, TRUE)

\* onIdentified(err): waitForIdentified has called back for exit h
onIdentified(h, err) ==
    /\ relayPhase[h] = "identifying"
    /\ IF err = "none"
       THEN /\ relayPhase' = [relayPhase EXCEPT ![h] = "requesting"]
            /\ UNCHANGED <<attempts, counter, adResponse, inreq, relayServices,
                           relayDone>>
       ELSE onResponse(h, err)
    /\ lastOp' = Op("onIdentified", err, h, {})
    /\ UNCHANGED <<now, ringVars, dispatchVars, blockVars, rateVars, outcome, discovery, circuitVars>>

\* the relay-ad / relay-unad request to exit h is answered, or fails
RelayResponse(h, kind) ==
    /\ relayPhase[h] = "requesting"
    /\ onResponse(h, kind)
    /\ lastOp' = Op("onResponse", kind, h, {})
    /\ UNCHANGED <<now, ringVars, dispatchVars, blockVars, rateVars, outcome, discovery, circuitVars>>

\* tryRequest(), run by the retry timer
tryRequest(h) ==
    /\ relayPhase[h] = "retrying"
    /\ attempts' = [attempts EXCEPT ![h] = @ + 1]
    /\ relayPhase' = [relayPhase EXCEPT ![h] = "identifying"]
    /\ lastOp' = Op("tryRequest", "", h, {})
    /\ UNCHANGED <<now, ringVars, dispatchVars, blockVars, rateVars, outcome,
                   discovery, circuitVars, counter, adResponse, inreq, relayServices, relayDone>>

(***************************************************************************)
(* HyperbahnHandler: discovery.  One lookup is followed from the request   *)
(* of a client to its answer, through the request forwarded for it.        *)
(***************************************************************************)
\* the host port of a peer as its key spells it, "a.b.c.d:port", split at
\* the ':' and the '.': workers and relays are on different networks, one of
\* them with a first octet above 127
HostPortStrs(hp) ==
    [ip |-> <<IF hp \in Workers THEN 192 ELSE 10, 168, hp \div 2, hp>>,
     port |-> 4000 + hp]

\* x << n of JavaScript, for 0 <= x and 0 < n < 31: the low 32 bits of
\* x * 2^n as a signed number, which is negative when bit 31 - n of x is set
ShiftLeft(x, n) ==
    LET low == (x % 2^(31 - n)) * 2^n
    IN IF x % 2^(32 - n) >= 2^(31 - n) THEN low - 2^30 - 2^30 ELSE low

\* convertHosts leaving the first octet out of ipv4
convertHostsLowOctets(hosts) ==
    [i \in 1..Len(hosts) |->
        LET strs == HostPortStrs(hosts[i])
        IN [port |-> strs.port,
            ipv4 |-> strs.ip[4] + ShiftLeft(strs.ip[3], 8) + ShiftLeft(strs.ip[2], 16)]]

\* convertHosts(hosts): each "a.b.c.d:port" as {ip: {ipv4}, port}
convertHosts(hosts) ==
    [i \in 1..Len(hosts) |->
        LET strs == HostPortStrs(hosts[i])
        IN [port |-> strs.port,
            ipv4 |-> strs.ip[4] + ShiftLeft(strs.ip[3], 8)
                     + ShiftLeft(strs.ip[2], 16) + ShiftLeft(strs.ip[1], 24)]]

\* no lookup yet
NoDiscovery ==
    [endpoint |-> "none", cn |-> Missing, serviceName |-> Missing, answer |-> "none",
     peers |-> <<>>, forwarded |-> None, hops |-> 0]

\* what a discovery handler leaves: the dispatcher state, the answer it gave
\* (none when it forwarded instead), the peers of an ok answer, and the
\* request it forwarded
Discovered(st, answer, peers, forwarded) ==
    [st |-> st, answer |-> answer, peers |-> peers, forwarded |-> forwarded]

\* _getDiscoverHosts(serviceName, cb)
GetDiscoverHosts(st, serviceName) ==
    LET hosts == IF st.mode[serviceName] # "none"
                 THEN convertHosts(SortedSeq(st.peers[serviceName]))
                 ELSE <<>>
    IN IF Len(hosts) = 0
       THEN Discovered(st, "noPeersAvailable", <<>>, None)
       ELSE Discovered(st, "ok", hosts, None)

\* _forwardToRemoteDiscover(req, svcchan, body, cb): the request it sends
ForwardToRemoteDiscover(st, serviceName) ==
    Discovered(st, "none", <<>>,
               Some([endpoint |-> "Hyperbahn::discoverAffine", cn |-> "hyperbahn",
                     serviceName |-> serviceName]))

\* discover answering a lookup without a name as one with no peers
DiscoverNamingNoPeers(st, cn, serviceName) ==
    IF serviceName = Missing
    THEN Discovered(st, "noPeersAvailable", <<>>, None)
    ELSE LET st1 == GetOrCreateServiceChannel(st, serviceName)
         IN IF st1.mode[serviceName] = "forward" /\ cn # "hyperbahn"
            THEN ForwardToRemoteDiscover(st1, serviceName)
            ELSE GetDiscoverHosts(st1, serviceName)

\* discover(handler, req, head, body, cb)
Discover(st, cn, serviceName) ==
    IF serviceName = Missing
    THEN Discovered(st, "invalidServiceName", <<>>, None)
    ELSE LET st1 == GetOrCreateServiceChannel(st, serviceName)
         IN IF st1.mode[serviceName] = "forward" /\ cn # "hyperbahn"
            THEN ForwardToRemoteDiscover(st1, serviceName)
            ELSE GetDiscoverHosts(st1, serviceName)

\* discoverAffine forwarding as discover does for a client
DiscoverAffineForwarding(st, cn, serviceName) == Discover(st, "alice", serviceName)

\* discoverAffine(handler, req, head, body, cb)
DiscoverAffine(st, cn, serviceName) ==
    IF serviceName = Missing
    THEN Discovered(st, "invalidServiceName", <<>>, None)
    ELSE GetDiscoverHosts(st, serviceName)

\* a request arrives at Hyperbahn::discover
discover(cn, serviceName) ==
    LET d == Discover(St, cn, serviceName)
    IN /\ Commit(d.st)
       /\ discovery' = [endpoint |-> "Hyperbahn::discover", cn |-> cn,
                        serviceName |-> serviceName, answer |-> d.answer,
                        peers |-> d.peers, forwarded |-> d.forwarded,
                        hops |-> IF IsNone(d.forwarded) THEN 0 ELSE 1]
       /\ lastOp' = Op("discover", serviceName, 0, {cn})
       /\ UNCHANGED <<now, ringVars, blockVars, rateVars, outcome, relayVars, circuitVars>>

\* a request arrives at Hyperbahn::discoverAffine
discoverAffine(cn, serviceName) ==
    LET d == DiscoverAffine(St, cn, serviceName)
    IN /\ Commit(d.st)
       /\ discovery' = [endpoint |-> "Hyperbahn::discoverAffine", cn |-> cn,
                        serviceName |-> serviceName, answer |-> d.answer,
                        peers |-> d.peers, forwarded |-> d.forwarded,
                        hops |-> IF IsNone(d.forwarded) THEN 0 ELSE 1]
       /\ lastOp' = Op("discoverAffine", serviceName, 0, {cn})
       /\ UNCHANGED <<now, ringVars, blockVars, rateVars, outcome, relayVars, circuitVars>>

\* the forwarded request arrives at the router it was sent to, which runs the
\* same handlers on the state it has, whatever its mode for the service; its
\* answer goes back through handleForward as the answer to the lookup
ForwardedArrives ==
    /\ ~IsNone(discovery.forwarded)
    /\ discovery.answer = "none"
    /\ LET req == Get(discovery.forwarded)
           d == IF req.endpoint = "Hyperbahn::discover"
                THEN Discover(St, req.cn, req.serviceName)
                ELSE DiscoverAffine(St, req.cn, req.serviceName)
       IN /\ Commit(d.st)
          /\ discovery' = [discovery EXCEPT
                              !.answer = IF IsNone(d.forwarded) THEN d.answer ELSE "none",
                              !.peers = d.peers,
                              !.forwarded = IF IsNone(d.forwarded) THEN @
                                            ELSE d.forwarded,
                              !.hops = IF IsNone(d.forwarded) THEN @ ELSE @ + 1]
          /\ lastOp' = Op("forwarded", req.serviceName, 0, {req.cn})
    /\ UNCHANGED <<now, ringVars, blockVars, rateVars, outcome, relayVars, circuitVars>>

\* handleForward(err, resp) with an error: the forwarded request timed out or
\* found no connection, and the error is the answer
ForwardFails ==
    /\ ~IsNone(discovery.forwarded)
    /\ discovery.answer = "none"
    /\ discovery' = [discovery EXCEPT !.answer = "error"]
    /\ lastOp' = Op("handleForward", discovery.serviceName, 0, {"error"})
    /\ UNCHANGED <<now, ringVars, dispatchVars, blockVars, rateVars, outcome, relayVars,
                   circuitVars>>

(***************************************************************************)
(* The circuit registry (circuits.js).  A circuit is kept under the keys   *)
(* '$' + serviceName, '$' + callerName and '$' + endpointName.  The states *)
(* of a circuit (states.js, state_machine.js) are not among the sources;   *)
(* they follow the description of the state machine: a Healthy circuit     *)
(* counts the requests and the errors of the period, an Unhealthy one the  *)
(* successes in a row of its probes.                                       *)
(***************************************************************************)
\* the period's requests a Healthy circuit is followed for
MaxPeriodRequests == 3

\* config.minRequests, config.probation, and config.maxErrorRate as the
\* fraction MaxErrorRateNum / MaxErrorRateDen
MinRequests == 2
Probation == 2
MaxErrorRateNum == 1
MaxErrorRateDen == 2

EndpointNames == {"echo"}

\* the key a name is kept under
Key(name) == "$" \o name

\* no Result yet
NoResult == [err |-> "none", message |-> "", value |-> None]

\* new Result(new ErrorFrame(codeName, message))
ErrorFrame(codeName, message) ==
    [err |-> codeName, message |-> message, value |-> None]

\* new Result(null, circuit): the circuit, named by its keys
Result(circuit) == [err |-> "null", message |-> "", value |-> Some(circuit)]

\* circuit.setState(states.HealthyState): a period without requests so far
HealthyState == [state |-> "Healthy", requests |-> 0, errors |-> 0, successes |-> 0]

\* the Unhealthy state as it is entered
UnhealthyState == [state |-> "Unhealthy", requests |-> 0, errors |-> 0, successes |-> 0]

\* circuit.state.shouldRequest()
shouldRequest(circuit) == circuit.state = "Healthy"

\* Circuits.prototype.getCircuit: the registry with the circuit in it
getCircuit(registry, callerName, serviceName, endpointName) ==
    LET c == <<Key(serviceName), Key(callerName), Key(endpointName)>>
    IN IF c \in DOMAIN registry THEN registry ELSE MapPut(registry, c, HealthyState)

\* getCircuitForRequest finding every circuit fit for requests
getCircuitForRequestUnchecked(registry, cn, serviceName, arg1) ==
    LET callerName == IF cn = Missing THEN "no-cn" ELSE cn
        c == <<Key(serviceName), Key(callerName), Key(arg1)>>
        after == getCircuit(registry, callerName, serviceName, arg1)
    IN IF serviceName = Missing
       THEN [registry |-> registry,
             result |-> ErrorFrame("BadRequest", "All requests must have a service name")]
       ELSE [registry |-> after, result |-> Result(c)]

\* Circuits.prototype.getCircuitForRequest(req): the registry after it and
\* the Result it returns
getCircuitForRequest(registry, cn, serviceName, arg1) ==
    LET callerName == IF cn = Missing THEN "no-cn" ELSE cn
        c == <<Key(serviceName), Key(callerName), Key(arg1)>>
        after == getCircuit(registry, callerName, serviceName, arg1)
    IN IF serviceName = Missing
       THEN [registry |-> registry,
             result |-> ErrorFrame("BadRequest", "All requests must have a service name")]
       ELSE IF ~shouldRequest(after[c])
       THEN [registry |-> after,
             result |-> ErrorFrame("Declined", "Service is not healthy")]
       ELSE [registry |-> after, result |-> Result(c)]

\* the error rate of the period is above config.maxErrorRate
ErrorRateAbove(circuit) ==
    circuit.errors * MaxErrorRateDen > MaxErrorRateNum * circuit.requests

\* the end of a period that trips a circuit whatever its requests were
onPeriodEndTripping(circuit) ==
    IF circuit.state = "Healthy" THEN UnhealthyState ELSE circuit

\* the end of a period of a circuit
onPeriodEnd(circuit) ==
    IF circuit.state # "Healthy" THEN circuit
    ELSE IF circuit.requests >= MinRequests /\ ErrorRateAbove(circuit)
    THEN UnhealthyState
    ELSE HealthyState

\* the outcome of a probe that leaves the count of an Unhealthy circuit as it
\* is when the probe fails
onProbeKeepingCount(circuit, ok) ==
    IF ~ok THEN circuit
    ELSE IF circuit.successes + 1 >= Probation THEN HealthyState
    ELSE [circuit EXCEPT !.successes = @ + 1]

\* the outcome of a probe of an Unhealthy circuit
onProbe(circuit, ok) ==
    IF ~ok THEN [circuit EXCEPT !.successes = 0]
    ELSE IF circuit.successes + 1 >= Probation THEN HealthyState
    ELSE [circuit EXCEPT !.successes = @ + 1]

\* the outcome of a request of a circuit
onRequestOutcome(circuit, ok) ==
    IF circuit.state = "Healthy"
    THEN [circuit EXCEPT !.requests = @ + 1,
                         !.errors = IF ok THEN @ ELSE @ + 1]
    ELSE onProbe(circuit, ok)

\* the circuitStateChange events of a change of a circuit
StateChanges(c, old, new) ==
    IF old.state = new.state THEN {}
    ELSE {[circuit |-> c, oldState |-> old.state, state |-> new.state]}

\* enableCircuits(), with initCircuits() when there are no circuits yet
enableCircuits ==
    /\ ~circuitsEnabled
    /\ circuitsEnabled' = TRUE
    /\ circuits' = IF IsNone(circuits) THEN Some(<<>>) ELSE circuits
    /\ handlerCircuits' = [s \in Services |->
                              IF chanMode[s] = "exit" THEN TRUE ELSE handlerCircuits[s]]
    /\ lastOp' = Op("enableCircuits", "", 0, {})
    /\ UNCHANGED <<now, ringVars, channelVars, blockVars, rateVars, outcome, relayVars,
                   discovery, circuitResult>>

\* disableCircuits()
disableCircuits ==
    /\ circuitsEnabled
    /\ circuitsEnabled' = FALSE
    /\ handlerCircuits' = [s \in Services |->
                              IF chanMode[s] = "exit" THEN FALSE ELSE handlerCircuits[s]]
    /\ lastOp' = Op("disableCircuits", "", 0, {})
    /\ UNCHANGED <<now, ringVars, channelVars, blockVars, rateVars, outcome, relayVars,
                   discovery, circuits, circuitResult>>

\* the relay handler of a channel asks for the circuit of a request
CircuitForRequest(cn, serviceName, arg1) ==
    /\ ~IsNone(circuits)
    /\ LET r == getCircuitForRequest(Get(circuits), cn, serviceName, arg1)
       IN /\ circuits' = Some(r.registry)
          /\ circuitResult' = r.result
    /\ lastOp' = Op("getCircuitForRequest", serviceName, 0,
                    {[cn |-> cn, arg1 |-> arg1]})
    /\ UNCHANGED <<now, ringVars, dispatchVars, blockVars, rateVars, outcome, relayVars,
                   discovery, circuitsEnabled>>

\* a request sent through circuit c, or a probe of it, ends well or not
RequestOutcome(c, ok) ==
    /\ ~IsNone(circuits)
    /\ c \in DOMAIN Get(circuits)
    /\ Get(circuits)[c].state = "Healthy" => Get(circuits)[c].requests < MaxPeriodRequests
    /\ LET old == Get(circuits)[c]
           new == onRequestOutcome(old, ok)
       IN /\ circuits' = Some([Get(circuits) EXCEPT ![c] = new])
          /\ lastOp' = Op("requestOutcome", "", 0,
                          {[circuit |-> c, ok |-> ok,
                            emitted |-> StateChanges(c, old, new)]})
    /\ UNCHANGED <<now, ringVars, dispatchVars, blockVars, rateVars, outcome, relayVars,
                   discovery, circuitsEnabled, circuitResult>>

\* the period of circuit c ends
PeriodEnds(c) ==
    /\ ~IsNone(circuits)
    /\ c \in DOMAIN Get(circuits)
    /\ LET old == Get(circuits)[c]
           new == onPeriodEnd(old)
       IN /\ circuits' = Some([Get(circuits) EXCEPT ![c] = new])
          /\ lastOp' = Op("periodEnds", "", 0,
                          {[circuit |-> c, ok |-> TRUE,
                            emitted |-> StateChanges(c, old, new)]})
    /\ UNCHANGED <<now, ringVars, dispatchVars, blockVars, rateVars, outcome, relayVars,
                   discovery, circuitsEnabled, circuitResult>>

(***************************************************************************)
(* The state after construction.                                           *)
(***************************************************************************)
InitDispatch ==
    /\ chanMode = [s \in Services |-> "none"]
    /\ chanPeers = [s \in Services |-> {}]
    /\ handlerCircuits = [s \in Services |-> FALSE]
    /\ relaysFor = [s \in Services |-> None]
    /\ exitServices = <<>>
    /\ knownPeers = {}
    /\ peersToReap = {}
    /\ peersToPrune = {}
    /\ connectedServicePeers = {}
    /\ connectedPeerServices = {}
    /\ partialRanges = <<>>
    /\ partialAffinityEnabled = FALSE
    /\ rootPeers = {}
    /\ draining = [hp \in HostPorts |-> "none"]
    /\ connOut = [hp \in HostPorts |-> FALSE]

InitAdmission ==
    /\ blockingTable = None
    /\ blockingTableRemoteConfig = None
    /\ rateLimiterEnabled = FALSE
    /\ totalRps = 0
    /\ serviceRps = <<>>
    /\ ksTotalRps = 0
    /\ ksRps = <<>>
    /\ edgeRps = <<>>
    /\ totalRpsLimit = TotalRpsLimit
    /\ rpsLimitForServiceName = <<>>
    /\ outcome = NoRequest

InitCircuits ==
    /\ circuitsEnabled = FALSE
    /\ circuits = None
    /\ circuitResult = NoResult

InitRelay ==
    /\ relayPhase = [h \in Relays |-> "idle"]
    /\ attempts = [h \in Relays |-> 0]
    /\ counter = 0
    /\ adResponse = None
    /\ inreq = [remoteName |-> 0, services |-> <<>>]
    /\ relayServices = [h \in Relays |-> <<>>]
    /\ relayDone = [h \in Relays |-> <<>>]

Init ==
    /\ now = 1
    /\ exits \in RingViews
    /\ updateScheduled = FALSE
    /\ InitDispatch
    /\ InitAdmission
    /\ InitRelay
    /\ discovery = NoDiscovery
    /\ InitCircuits
    /\ lastOp = Op("init", "", 0, {})

\* the lists of services of an ad or an unad: up to MaxServices services, a
\* name given twice and an empty name included; the hostPort the client wrote
\* in them is one worker's, whichever worker the ad comes from
AdServices ==
    UNION {[1..n -> {Service(sn, CHOOSE w \in Workers : TRUE)
                     : sn \in Services \cup {Missing}}]
           : n \in 0..MaxServices}

\* the state after construction with options.partialAffinityEnabled either
\* way, and timers whose clock starts at 0 or later
InitPartial ==
    /\ now \in {0, 1}
    /\ exits \in RingViews
    /\ updateScheduled = FALSE
    /\ chanMode = [s \in Services |-> "none"]
    /\ chanPeers = [s \in Services |-> {}]
    /\ handlerCircuits = [s \in Services |-> FALSE]
    /\ relaysFor = [s \in Services |-> None]
    /\ exitServices = <<>>
    /\ knownPeers = {}
    /\ peersToReap = {}
    /\ peersToPrune = {}
    /\ connectedServicePeers = {}
    /\ connectedPeerServices = {}
    /\ partialRanges = <<>>
    /\ partialAffinityEnabled \in BOOLEAN
    /\ rootPeers = {}
    /\ draining = [hp \in HostPorts |-> "none"]
    /\ connOut = [hp \in HostPorts |-> FALSE]
    /\ InitAdmission
    /\ InitRelay
    /\ discovery = NoDiscovery
    /\ InitCircuits
    /\ lastOp = Op("init", "", 0, {})

\* advertisements, unadvertisements, the reaper, the pruner and the drains
Next ==
    \/ \E s \in Services, hp \in Workers : Advertise(s, hp)
    \/ \E s \in Services, hp \in Workers : Unadvertise(s, hp)
    \/ ReapTick
    \/ PruneTick
    \/ \E hp \in HostPorts : DrainDone(hp)

Spec == Init /\ [][Next]_vars

\* advertisements while the ring's membership shifts
NextRing ==
    \/ \E s \in Services, hp \in Workers : Advertise(s, hp)
    \/ \E s \in Services, hp \in Workers : Unadvertise(s, hp)
    \/ \E hp \in HostPorts : DrainDone(hp)
    \/ \E e \in RingViews : RingChange(e)
    \/ UpdateServiceChannels

SpecRing == Init /\ [][NextRing]_vars

\* advertisements while time passes and the service purger runs
NextPurge ==
    \/ \E s \in Services, hp \in Workers : Advertise(s, hp)
    \/ \E s \in Services, hp \in Workers : Unadvertise(s, hp)
    \/ PurgeTick
    \/ Tick

SpecPurge == Init /\ [][NextPurge]_vars

\* requests against the blocking tables, with the rate limiter off
NextBlock ==
    \/ \E cn \in {"alice", Missing}, sn \in {"steve", Missing} :
          \/ block(cn, sn)
          \/ unblock(cn, sn)
          \/ blockRemoteConfig(cn, sn)
    \/ unblockAllRemoteConfig
    \/ \E cn \in CallerNames \cup {Missing}, sn \in Services \cup {Missing},
          rd \in {"steve", Missing} :
          \/ handleRequest(cn, sn, rd)
          \/ handleLazily(cn, sn, rd)

SpecBlock == Init /\ [][NextBlock]_vars

\* requests against the rate limiter
NextRate ==
    \/ enableRateLimiter
    \/ disableRateLimiter
    \/ WindowPasses
    \/ \E cn \in {"alice"}, sn \in Services, rd \in Services \cup {Missing} :
          \/ handleRequest(cn, sn, rd)
          \/ handleLazily(cn, sn, rd)

SpecRate == Init /\ [][NextRate]_vars

\* an ad or unad and its relays
NextRelay ==
    \/ \E remoteName \in Workers, services \in AdServices :
          sendRelays(remoteName, services)
    \/ \E h \in Relays, err \in {"none", "NetworkError", "Timeout", "other"} :
          onIdentified(h, err)
    \/ \E h \in Relays, kind \in {"ok", "notOk", "NetworkError", "Timeout", "other"} :
          RelayResponse(h, kind)
    \/ \E h \in Relays : tryRequest(h)

SpecRelay == Init /\ [][NextRelay]_vars

\* advertisements, unadvertisements, the pruner and the drains on a router
\* built with partial affinity or without
NextPartial ==
    \/ \E s \in Services, hp \in Workers : Advertise(s, hp)
    \/ \E s \in Services, hp \in Workers : Unadvertise(s, hp)
    \/ PruneTick
    \/ \E hp \in HostPorts : DrainDone(hp)

SpecPartial == InitPartial /\ [][NextPartial]_vars

\* the service whose workers advertise while everything else goes on
IndexedService == CHOOSE s \in Services : TRUE

\* a router built as the clients build it, with partial affinity off, the
\* clock at 0 or later, and all relays as the exits of every service
InitIndex ==
    /\ InitPartial
    /\ ~partialAffinityEnabled
    /\ \A s \in Services : exits[s] = Relays

\* the ring's membership shifts for the exits of the one service
RingChangeIndexed(e) ==
    /\ \A s \in Services \ {IndexedService} : e[s] = exits[s]
    /\ RingChange(e)

\* advertise, unadvertise, reap, membership reconciliation and
\* setPartialAffinityEnabled in any order, for the workers of one service
NextIndex ==
    \/ \E hp \in Workers : Advertise(IndexedService, hp)
    \/ \E hp \in Workers : Unadvertise(IndexedService, hp)
    \/ ReapTick
    \/ \E e \in RingViews : RingChangeIndexed(e)
    \/ UpdateServiceChannels
    \/ \E enabled \in BOOLEAN : setPartialAffinityEnabled(enabled)

SpecIndex == InitIndex /\ [][NextIndex]_vars

\* discovery lookups between advertisements and unadvertisements
NextDiscover ==
    \/ \E s \in Services, hp \in Workers : Advertise(s, hp)
    \/ \E s \in Services, hp \in Workers : Unadvertise(s, hp)
    \/ \E hp \in HostPorts : DrainDone(hp)
    \/ \E cn \in {"alice", "hyperbahn"}, sn \in Services \cup {Missing} :
          \/ discover(cn, sn)
          \/ discoverAffine(cn, sn)
    \/ ForwardedArrives
    \/ ForwardFails

SpecDiscover == Init /\ [][NextDiscover]_vars

\* service channels created by requests and advertisements while the ring
\* changes and the service purger runs
NextCreate ==
    \/ \E sn \in Services : handleRequest("alice", sn, Missing)
    \/ \E s \in Services, hp \in Workers : Advertise(s, hp)
    \/ \E e \in RingViews : RingChange(e)
    \/ UpdateServiceChannels
    \/ PurgeTick
    \/ Tick

SpecCreate == Init /\ [][NextCreate]_vars

\* requests on both paths, with and without caller and service name, against
\* the blocking table and the rate limiter
NextAdmit ==
    \/ \E cn \in {"alice", Missing} : block(cn, "steve")
    \/ \E cn \in {"alice", Missing} : unblock(cn, "steve")
    \/ enableRateLimiter
    \/ WindowPasses
    \/ \E cn \in {"alice", Missing}, sn \in Services \cup {Missing} :
          \/ handleRequest(cn, sn, Missing)
          \/ handleLazily(cn, sn, Missing)

SpecAdmit == Init /\ [][NextAdmit]_vars

\* the blocking tables under the operator's calls and remote config's
\* kill-switch updates
NextKill ==
    \/ \E cn \in {"alice", Missing}, sn \in {"steve", Missing} :
          \/ block(cn, sn)
          \/ unblock(cn, sn)
          \/ blockRemoteConfig(cn, sn)
    \/ \E killSwitches \in KillSwitchLists : updateKillSwitches(killSwitches)

SpecKill == Init /\ [][NextKill]_vars

\* requests against a rate limiter whose limits remote config updates
NextLimit ==
    \/ enableRateLimiter
    \/ WindowPasses
    \/ \E sn \in Services : handleRequest("alice", sn, Missing)
    \/ \E limit \in RpsLimits : updateTotalLimit(limit)
    \/ \E sn \in Services, limit \in RpsLimits : updateServiceLimit(sn, limit)

SpecLimit == Init /\ [][NextLimit]_vars

\* every circuit the requests of the model can name
AllCircuits ==
    {<<Key(sn), Key(cn), Key(en)>> :
        sn \in Services, cn \in CallerNames \cup {"no-cn"}, en \in EndpointNames}

\* requests of one service, named and unnamed callers, through the circuits
NextHealth ==
    \/ enableCircuits
    \/ disableCircuits
    \/ \E cn \in {"alice", Missing}, sn \in {"steve", Missing}, arg1 \in EndpointNames :
          CircuitForRequest(cn, sn, arg1)
    \/ \E c \in AllCircuits, ok \in BOOLEAN : RequestOutcome(c, ok)
    \/ \E c \in AllCircuits : PeriodEnds(c)

SpecHealth == Init /\ [][NextHealth]_vars

\* the ring views with the answers of the ring for the keys of the circuit
\* registry, which are names to the ring like any other
KeyRingViews ==
    [Services \cup {Key(s) : s \in Services} -> {Relays, Relays \ {SelfHostPort}}]

\* the state after construction, the ring answering for every name
InitKeyRing ==
    /\ now = 1
    /\ exits \in KeyRingViews
    /\ updateScheduled = FALSE
    /\ InitDispatch
    /\ InitAdmission
    /\ InitRelay
    /\ discovery = NoDiscovery
    /\ InitCircuits
    /\ lastOp = Op("init", "", 0, {})

\* circuits in use while the ring's membership shifts
NextCircuits ==
    \/ enableCircuits
    \/ \E sn \in Services, arg1 \in EndpointNames : CircuitForRequest("alice", sn, arg1)
    \/ \E c \in AllCircuits, ok \in BOOLEAN : RequestOutcome(c, ok)
    \/ \E c \in AllCircuits : PeriodEnds(c)
    \/ \E e \in KeyRingViews : RingChange(e)
    \/ UpdateServiceChannels

SpecCircuits == InitKeyRing /\ [][NextCircuits]_vars

\* the fan-out with what its callbacks can count on: waitForIdentified calls
\* back, a request is answered or times out after relayAdTimeout, and the
\* retry timer fires
SpecRelayFair ==
    /\ SpecRelay
    /\ \A h \in Relays :
           /\ WF_vars(\E err \in {"none", "NetworkError", "Timeout", "other"} :
                         onIdentified(h, err))
           /\ WF_vars(\E kind \in {"ok", "notOk", "NetworkError", "Timeout", "other"} :
                         RelayResponse(h, kind))
           /\ WF_vars(tryRequest(h))

(***************************************************************************)
(* Properties of the peer lifecycle.                                       *)
(***************************************************************************)
\* the service channels other than s that hold hp
OtherChannelsOf(s, hp) == {s2 \in Services \ {s} : hp \in chanPeers[s2]}

\* C1: removeServicePeer(s, hp) never starts a drain of hp, and never removes
\* it from the transport's peer table, while hp is still in the peer set of
\* another service channel
C1_UnadvertiseKeepsSharedPeer ==
    [][(lastOp'.op = "removeServicePeer"
          /\ OtherChannelsOf(lastOp'.s, lastOp'.hp) # {})
       => /\ draining'[lastOp'.hp] = draining[lastOp'.hp]
          /\ (lastOp'.hp \in rootPeers => lastOp'.hp \in rootPeers')]_vars

\* C2: at a tick of the service purger every entry of exitServices that was
\* last refreshed longer ago than the configured purge period is purged: the
\* entry is deleted and the service channel is removed
C2_StaleServicePurged ==
    [][lastOp'.op = "purge"
       => \A s \in DOMAIN exitServices :
             now - exitServices[s] > ServicePurgePeriodOption
             => /\ s \notin DOMAIN exitServices'
                /\ chanMode'[s] = "none"]_vars

\* the workers that were known at the previous tick of the reaper and have
\* not advertised since: the host ports left in peersToReap
SilentPeers == {hp \in Workers : HasLevel(peersToReap, hp) /\ ~HasLevel(knownPeers, hp)}

\* C3: a tick of the reaper removes every connected worker that stayed silent
\* since the tick before from the service channels it was advertised for and
\* from the peer indices, and starts its drain for reaping
C3_SilentPeerReaped ==
    [][lastOp'.op = "reap"
       => \A hp \in SilentPeers :
             (hp \in rootPeers /\ draining[hp] = "none")
             => /\ \A s \in LevelKeys(peersToReap, hp) : hp \notin chanPeers'[s]
                /\ ~HasLevel(knownPeers', hp)
                /\ ~HasLevel(connectedPeerServices', hp)
                /\ draining'[hp] = "reaped"]_vars

\* C4: a tick of the reaper starts no drain of, and does not delete, a peer
\* that has advertised for a service since the tick before
C4_ReapSparesRefreshedPeer ==
    [][lastOp'.op = "reap"
       => \A hp \in Workers :
             HasLevel(knownPeers, hp)
             => /\ draining'[hp] = draining[hp]
                /\ (hp \in rootPeers => hp \in rootPeers')]_vars

\* C5: when updateServiceChannels has run, every service channel is in exit
\* mode if the ring names this router an exit for its service, and in forward
\* mode if it does not
C5_ModeFollowsRing ==
    lastOp.op = "updateServiceChannels"
    => \A s \in Services :
          chanMode[s] # "none"
          => (chanMode[s] = "exit" <=> RingIsExitFor(s))

\* updateServiceChannels has run and turned a channel to the other mode,
\* while another channel kept its mode
C5_Witness ==
    /\ lastOp.op = "updateServiceChannels"
    /\ lastOp.info # {}
    /\ \E s \in Services \ lastOp.info : chanMode[s] # "none"

(***************************************************************************)
(* Properties of admission.                                                *)
(***************************************************************************)
\* a request has just been handled, and got as far as the block check
RequestChecked ==
    /\ lastOp.op \in {"handleRequest", "handleLazily"}
    /\ outcome.sn # Missing
    /\ outcome.path = "lazy" => outcome.cn # Missing

\* one of the keys cn~~sn, *~~sn, cn~~* is in the operator's table or in the
\* table of the remote configuration
KeyPresent(cn, sn) ==
    \E table \in {blockingTable, blockingTableRemoteConfig} :
       /\ ~IsNone(table)
       /\ \E key \in Get(table) :
             key \in {OrStar(cn) \o "~~" \o sn, "*~~" \o sn, OrStar(cn) \o "~~*"}

\* C6: a request of caller cn, with sn the service it is routed to (the rd
\* header if set, the service name if not), is popped by the block check if
\* and only if one of the keys cn~~sn, *~~sn, cn~~* is in a blocking table
C6_PoppedIffKeyPresent ==
    RequestChecked
    => (outcome.result = "popped: blocked"
        <=> KeyPresent(outcome.cn, NextService(outcome.sn, outcome.rd)))

\* C7: a request with the rd header set is checked against the blocking
\* tables under rd, and is handed to the service channel of rd, on the lazy
\* path as on the eager path
C7_DelegateNamesEveryCheck ==
    (RequestChecked /\ outcome.rd # Missing)
    => /\ outcome.result = "popped: blocked" <=> KeyPresent(outcome.cn, outcome.rd)
       /\ outcome.result = "dispatched" => outcome.channel = outcome.rd

\* the result the order of checks of rateLimit gives a request for service s,
\* from the counters as they are when the request arrives
ResultInOrder(s) ==
    LET isExitNode == isExitFor(St, s)
    IN IF \/ ksTotalRps > DefaultTotalKillSwitchBuffer * TotalRpsLimit
          \/ /\ isExitNode
             /\ Rps(ksRps, s) > DefaultTotalKillSwitchBuffer * DefaultServiceRpsLimit
       THEN "popped: killswitch"
       ELSE IF totalRps > TotalRpsLimit THEN "Busy: total"
       ELSE IF isExitNode /\ Rps(serviceRps, s) > DefaultServiceRpsLimit
       THEN "Busy: service"
       ELSE "dispatched"

\* the step handles a request that reaches the rate limiter
RateLimitedStep ==
    /\ lastOp'.op \in {"handleRequest", "handleLazily"}
    /\ rateLimiterEnabled
    /\ outcome'.result \notin {"BadRequest", "popped: blocked"}

Added(s) ==
    <<ksTotalRps' - ksTotalRps, Rps(ksRps', s) - Rps(ksRps, s),
      totalRps' - totalRps, Rps(serviceRps', s) - Rps(serviceRps, s)>>

\* 1 on an exit for s, 0 elsewhere
OnExit(s) == IF isExitFor(St, s) THEN 1 ELSE 0

\* C9: a kill-switched request increments the edge counter only; a request
\* answered Busy has incremented the kill-switch counters and neither the
\* total nor the service counter; an admitted request increments them all,
\* the two service-level counters on an exit only
C9_CountersByOutcome ==
    [][RateLimitedStep
       => LET s == NextService(outcome'.sn, outcome'.rd)
              key == EdgeKey(CnString(outcome'.cn), s)
          IN /\ Rps(edgeRps', key) = Rps(edgeRps, key) + 1
             /\ outcome'.result = "popped: killswitch" => Added(s) = <<0, 0, 0, 0>>
             /\ outcome'.result \in {"Busy: total", "Busy: service"}
                => Added(s) = <<1, OnExit(s), 0, 0>>
             /\ outcome'.result = "dispatched"
                => Added(s) = <<1, OnExit(s), 1, OnExit(s)>>]_vars

\* a request on an exit was popped by the kill switch of its service
C9_Witness ==
    /\ lastOp.op \in {"handleRequest", "handleLazily"}
    /\ outcome.result = "popped: killswitch"
    /\ chanMode[NextService(outcome.sn, outcome.rd)] = "exit"
    /\ ksTotalRps <= DefaultTotalKillSwitchBuffer * TotalRpsLimit

RelayedPlaces(h) ==
    {i \in 1..Len(inreq.services) :
        /\ inreq.services[i].serviceName # Missing
        /\ h \in exits[inreq.services[i].serviceName]}

\* C11: sendRelays stamps every service of the ad or unad with the remote
\* name of the connection it came in on; one sendRelay is started for each
\* host that is an exit of a service with a name, and for no other host; its
\* request carries the services the host is an exit for, each once per place
\* in the list, and no other; and the response's connectionCount is the
\* number of those hosts
C11_FanOutByExit ==
    lastOp.op # "init"
    => /\ \A i \in 1..Len(inreq.services) :
              inreq.services[i].hostPort = inreq.remoteName
       /\ \A h \in Relays :
              /\ relayPhase[h] # "idle" <=> RelayedPlaces(h) # {}
              /\ attempts[h] >= 1 <=> RelayedPlaces(h) # {}
              /\ Len(relayServices[h]) = Cardinality(RelayedPlaces(h))
              /\ \A k \in 1..Len(relayServices[h]) :
                     \E i \in RelayedPlaces(h) :
                         relayServices[h][k] = inreq.services[i]
              /\ \A i \in RelayedPlaces(h) :
                     \E k \in 1..Len(relayServices[h]) :
                         relayServices[h][k] = inreq.services[i]
       /\ ~IsNone(adResponse)
          => Get(adResponse) = Cardinality({h \in Relays : RelayedPlaces(h) # {}})

\* an ad with a service without a name and a service with one exit was
\* relayed to that exit and to no other host, and answered
C11_Witness ==
    /\ lastOp.op # "init"
    /\ \E i \in 1..Len(inreq.services) : inreq.services[i].serviceName = Missing
    /\ \E h, g \in Relays : relayServices[h] # <<>> /\ relayServices[g] = <<>>
                            /\ relayPhase[h] = "finished" /\ relayPhase[g] = "idle"
    /\ adResponse = Some(1)

\* C12: the attempts a sendRelay makes for one exit, the first one counted,
\* never exceed maxRelayAdAttempts
C12_AttemptsWithinMax ==
    \A h \in Relays : attempts[h] <= MAX_RELAY_AD_ATTEMPTS

\* the callback of the sendRelay for exit h was called once, with no error
CalledBackOnce(h) ==
    /\ Len(relayDone[h]) = 1
    /\ relayDone[h][1].err = "null"

\* what a step of the sendRelay for exit h does with the outcome it is handed
RelayStepInOrder(h) ==
    /\ lastOp'.op \in {"onIdentified", "onResponse"} /\ lastOp'.hp = h
       => IF lastOp'.s = "none"
          THEN relayPhase'[h] = "requesting"
          ELSE IF lastOp'.s \in {"NetworkError", "Timeout"}
                  /\ relayPhase'[h] # "finished"
          THEN relayPhase'[h] = "retrying"
          ELSE /\ relayPhase'[h] = "finished"
               /\ relayDone'[h] = <<[err |-> "null", logged |-> lastOp'.s # "ok"]>>
    /\ relayPhase'[h] = "retrying" /\ relayPhase[h] # "retrying"
       => lastOp'.s \in {"NetworkError", "Timeout"}

\* C13: the callback of a sendRelay is called once, and with success: while
\* the relay is under way it has not been called, and when it is finished it
\* has been called once with (null, null); a failure of waitForIdentified or
\* of the send leads to another attempt only when it is a NetworkError or a
\* Timeout, and every other outcome (an ok response, a response that is not
\* ok, another error, or a NetworkError or Timeout with the attempts used up)
\* ends the relay with the success callback, after a log entry unless the
\* response was ok; and a relay under way is finished in the end
C13_CallbackOnceWithSuccess ==
    /\ [](\A h \in Relays :
             /\ relayPhase[h] = "finished" => CalledBackOnce(h)
             /\ relayPhase[h] # "finished" => relayDone[h] = <<>>)
    /\ [][\A h \in Relays : RelayStepInOrder(h)]_vars
    /\ \A h \in Relays :
           (relayPhase[h] \in {"identifying", "requesting", "retrying"})
               ~> (relayPhase[h] = "finished")

\* a relay ended, logged and with success, on a Timeout after its retries
C13_Witness ==
    \E h \in Relays :
        /\ lastOp = Op("onResponse", "Timeout", h, {})
        /\ relayPhase[h] = "finished"
        /\ attempts[h] > 1
        /\ relayDone[h] = <<[err |-> "null", logged |-> TRUE]>>

(***************************************************************************)
(* Properties of discovery.                                                *)
(***************************************************************************)
\* C14: discover and discoverAffine with an empty serviceName answer
\* invalidServiceName, forward nothing, and leave the dispatcher as it was:
\* no service channel is created and no peer is touched
C14_EmptyNameIsInvalid ==
    [][lastOp'.op \in {"discover", "discoverAffine"} /\ lastOp'.s = Missing
       => /\ discovery'.answer = "invalidServiceName"
          /\ IsNone(discovery'.forwarded)
          /\ UNCHANGED dispatchVars]_vars

\* discover with no name was answered on a router that has no channel at all
C14_Witness ==
    /\ lastOp.op = "discover" /\ lastOp.s = Missing
    /\ discovery.answer = "invalidServiceName"
    /\ \A s \in Services : chanMode[s] = "none"

\* C15: a lookup is forwarded at most once.  discover forwards exactly when
\* the cn header is not 'hyperbahn' and the service channel, which it creates
\* when there is none, is in forward mode; what it forwards is a
\* discoverAffine with cn = 'hyperbahn' for the same service; discoverAffine
\* never forwards; and the router the forwarded request arrives at answers it
\* from its own state, whatever its mode for the service
C15_ForwardedAtMostOnce ==
    /\ discovery.hops <= 1
    /\ lastOp.op = "discover"
       => /\ ~IsNone(discovery.forwarded)
             <=> /\ lastOp.info # {"hyperbahn"}
                 /\ lastOp.s # Missing
                 /\ chanMode[lastOp.s] = "forward"
          /\ ~IsNone(discovery.forwarded)
             => Get(discovery.forwarded) =
                   [endpoint |-> "Hyperbahn::discoverAffine", cn |-> "hyperbahn",
                    serviceName |-> lastOp.s]
    /\ lastOp.op = "discoverAffine" => IsNone(discovery.forwarded)
    /\ lastOp.op = "forwarded"
       => /\ discovery.hops = 1
          /\ discovery.answer \in {"ok", "noPeersAvailable"}

\* a forwarded lookup was answered by a router in forward mode for the service
C15_Witness ==
    /\ lastOp.op = "forwarded"
    /\ chanMode[lastOp.s] = "forward"
    /\ discovery.hops = 1
    /\ discovery.answer = "ok"

\* a host of a discovery answer read back as the "a.b.c.d:port" it stands
\* for, ipv4 being the 32 bits of a signed number
HostRead(host) ==
    LET high == IF host.ipv4 < 0 THEN 128 ELSE 0
        rest == IF host.ipv4 < 0 THEN host.ipv4 + 2^30 + 2^30 ELSE host.ipv4
    IN [ip |-> <<high + rest \div 2^24, (rest % 2^24) \div 2^16,
                 (rest % 2^16) \div 2^8, rest % 2^8>>,
        port |-> host.port]

\* the lookup of the last operation was answered from local state
AnsweredLocally ==
    /\ lastOp.op \in {"discover", "discoverAffine", "forwarded"}
    /\ discovery.answer \in {"ok", "noPeersAvailable"}

\* C16: a lookup answered locally is answered ok exactly when the service
\* channel exists and has peers, with one host for each host port of the
\* channel's peer set and no other, and noPeersAvailable exactly when there
\* is no channel or the channel has no peer; and a discover that follows the
\* advertise of (s, W) on an exit for s lists W
C16_ListsChannelPeers ==
    /\ [](AnsweredLocally
          => LET s == lastOp.s
                 hasPeers == chanMode[s] # "none" /\ chanPeers[s] # {}
             IN /\ discovery.answer = "ok" <=> hasPeers
                /\ discovery.answer = "noPeersAvailable" <=> ~hasPeers
                /\ hasPeers
                   => /\ Len(discovery.peers) = Cardinality(chanPeers[s])
                      /\ {HostRead(discovery.peers[i]) : i \in 1..Len(discovery.peers)}
                         = {HostPortStrs(hp) : hp \in chanPeers[s]})
    /\ [][/\ lastOp.op = "refreshServicePeer"
          /\ chanMode[lastOp.s] = "exit"
          /\ lastOp'.op = "discover" /\ lastOp'.s = lastOp.s
          => /\ discovery'.answer = "ok"
             /\ \E i \in 1..Len(discovery'.peers) :
                    HostRead(discovery'.peers[i]) = HostPortStrs(lastOp.hp)]_vars

\* discover on an exit listed the two workers that had advertised
C16_Witness ==
    /\ lastOp.op = "discover"
    /\ lastOp.s \in Services
    /\ chanMode[lastOp.s] = "exit"
    /\ discovery.answer = "ok"
    /\ Len(discovery.peers) = Cardinality(Workers)

(***************************************************************************)
(* Properties of partial affinity.                                         *)
(***************************************************************************)
\* C17: after removeServicePeer(s, hp) on a router that has a channel for s
\* and knows the peer hp, hp is not in the peer set of s's channel, with
\* partial affinity and without
C17_RemovedPeerLeavesChannel ==
    [][/\ lastOp'.op = "removeServicePeer"
       /\ chanMode[lastOp'.s] # "none"
       /\ lastOp'.hp \in rootPeers
       => lastOp'.hp \notin chanPeers'[lastOp'.s]]_vars

\* C18: a peer unadvertised while no other service channel holds it is
\* under a drain with the goal of closing the peer, in both directions; and
\* when the drain of an unadvertised peer is done, with an error or without,
\* the peer is gone from the transport's peer table and from every service
\* channel, so that a call forwarded to the service cannot be given it
C18_UnadvertisedPeerDrainedAndDeleted ==
    /\ [][/\ lastOp'.op = "removeServicePeer"
          /\ chanMode[lastOp'.s] # "none"
          /\ lastOp'.hp \in rootPeers
          /\ OtherChannelsOf(lastOp'.s, lastOp'.hp) = {}
          => /\ DrainGoal(draining'[lastOp'.hp]) = "close peer"
             /\ DrainDirection(draining'[lastOp'.hp]) = "both"]_vars
    /\ [][lastOp'.op = "drainDone" /\ lastOp'.s = "unadvertised"
          => /\ lastOp'.hp \notin rootPeers'
             /\ \A s \in Services : lastOp'.hp \notin chanPeers'[s]]_vars

\* the drain of the one worker of a service ended on an error, and the
\* service is left with no peer
C18_Witness ==
    /\ lastOp.op = "drainDone" /\ lastOp.s = "unadvertised"
    /\ lastOp.info = {"error"}
    /\ lastOp.hp \notin rootPeers
    /\ \E s \in Services : chanMode[s] = "exit" /\ chanPeers[s] = {}

\* keyb is a key of index[keya], whatever the value
IsKey(index, keya, keyb) == keyb \in LevelKeys(index, keya)

\* C19: after refreshServicePeer(s, hp) on a router in exit mode for s, hp is
\* in the peer set of s's channel, and with partial affinity hp is a key of
\* connectedServicePeers[s] and s a key of connectedPeerServices[hp], or
\* neither is
C19_RefreshedPeerInChannel ==
    lastOp.op = "refreshServicePeer" /\ chanMode[lastOp.s] = "exit"
    => /\ lastOp.hp \in chanPeers[lastOp.s]
       /\ partialAffinityEnabled
          => (IsKey(connectedServicePeers, lastOp.s, lastOp.hp)
              <=> IsKey(connectedPeerServices, lastOp.hp, lastOp.s))

\* with partial affinity, a worker was refreshed into the channel and into
\* neither index, while the affine worker of the service is in both
C19_Witness ==
    /\ lastOp.op = "refreshServicePeer" /\ chanMode[lastOp.s] = "exit"
    /\ partialAffinityEnabled
    /\ lastOp.hp \in chanPeers[lastOp.s]
    /\ ~IsKey(connectedServicePeers, lastOp.s, lastOp.hp)
    /\ ~IsKey(connectedPeerServices, lastOp.hp, lastOp.s)
    /\ \E w \in Workers : /\ IsKey(connectedServicePeers, lastOp.s, w)
                          /\ IsKey(connectedPeerServices, w, lastOp.s)

\* C20: in every reachable state hp is a key of connectedServicePeers[s]
\* exactly when s is a key of connectedPeerServices[hp], the entries written
\* with the timestamp 0 included
C20_IndicesMirrorEachOther ==
    \A s \in Services, hp \in HostPorts :
        IsKey(connectedServicePeers, s, hp) <=> IsKey(connectedPeerServices, hp, s)

\* an unadvertised peer is still a key of both indices, its entries having
\* been written with the timestamp 0
C20_Witness ==
    /\ lastOp.op = "removeServicePeer"
    /\ <<lastOp.s, lastOp.hp, 0>> \in connectedServicePeers
    /\ <<lastOp.hp, lastOp.s, 0>> \in connectedPeerServices

(***************************************************************************)
(* Properties of the secondary indices and the prune schedule.             *)
(***************************************************************************)
\* the calls of ensurePeerDisconnected the last advertise or unadvertise made
DisconnectCalls ==
    IF lastOp.op \in {"refreshServicePeer", "removeServicePeer"}
    THEN lastOp.info ELSE {}

\* C21: a peer is scheduled for prune, an entry of peersToPrune written for
\* it, if and only if connectedPeerServices[hp] is empty after the disconnect
\* and hp is not in peersToPrune already
C21_ScheduledIffUnconnected ==
    \A call \in DisconnectCalls :
        call.writes <=> (call.peerServices = {} /\ ~call.scheduled)

\* C21, its second half: a peer that still has a service in
\* connectedPeerServices is never scheduled for prune
C21_ConnectedNeverScheduled ==
    \A call \in DisconnectCalls : call.writes => call.peerServices = {}

\* C22: refreshServicePeer(s, hp) on a router whose channel for s is in
\* forward mode drops the advertisement: exitServices, knownPeers,
\* peersToReap, peersToPrune, the connected indices and the channel's peers
\* stay as they are, and no connection to hp is opened
C22_ForwardModeDropsAdvertise ==
    [][(lastOp'.op = "refreshServicePeer" /\ chanMode[lastOp'.s] = "forward")
       => UNCHANGED <<exitServices, knownPeers, peersToReap, peersToPrune,
                      connectedServicePeers, connectedPeerServices, chanPeers,
                      chanMode, rootPeers, connOut, draining>>]_vars

\* an advertisement was dropped by a channel that was in forward mode before
\* it: the ring names this router an exit by now, and a channel created by
\* the advertisement would be in exit mode
C22_Witness ==
    /\ lastOp.op = "refreshServicePeer"
    /\ chanMode[lastOp.s] = "forward"
    /\ RingIsExitFor(lastOp.s)
    /\ lastOp.hp \notin chanPeers[lastOp.s]

(***************************************************************************)
(* Properties of the circuits.                                             *)
(***************************************************************************)
\* the request of the last getCircuitForRequest: its cn and its arg1
LastRequest == CHOOSE r \in lastOp.info : TRUE

\* the key of the circuit of a request
CircuitOf(cn, sn, arg1) ==
    <<Key(sn), Key(IF cn = Missing THEN "no-cn" ELSE cn), Key(arg1)>>

\* C23: getCircuitForRequest(req) returns BadRequest for a request without a
\* service name and creates no circuit; Declined('Service is not healthy')
\* when the circuit of (cn or 'no-cn', serviceName, arg1) says it should not
\* be used; that circuit otherwise.  The circuit is created Healthy on first
\* reference, every later lookup finds the same circuit as it was left, and
\* requests without cn share the circuit of 'no-cn'
C23_CircuitForRequest ==
    [][lastOp'.op = "getCircuitForRequest"
       => LET sn == lastOp'.s
              req == CHOOSE r \in lastOp'.info : TRUE
              c == CircuitOf(req.cn, sn, req.arg1)
              before == Get(circuits)
              after == Get(circuits')
          IN IF sn = Missing
             THEN /\ circuitResult'.err = "BadRequest"
                  /\ after = before
             ELSE /\ DOMAIN after = DOMAIN before \cup {c}
                  /\ \A d \in DOMAIN before : after[d] = before[d]
                  /\ c \notin DOMAIN before => after[c] = HealthyState
                  /\ IF after[c].state = "Unhealthy"
                     THEN circuitResult' = ErrorFrame("Declined", "Service is not healthy")
                     ELSE circuitResult' = Result(c)]_vars

\* a request without cn was declined by the circuit that requests without cn
\* share, while the circuit of a named caller of the same endpoint is Healthy
C23_Witness ==
    /\ lastOp.op = "getCircuitForRequest"
    /\ lastOp.s = "steve"
    /\ LastRequest.cn = Missing
    /\ circuitResult.err = "Declined"
    /\ CircuitOf("alice", "steve", LastRequest.arg1) \in DOMAIN Get(circuits)
    /\ Get(circuits)[CircuitOf("alice", "steve", LastRequest.arg1)].state = "Healthy"

\* the service name a circuit was created under
ServiceNameOf(c) == CHOOSE s \in Services : Key(s) = c[1]

\* C24: after Circuits.updateServices(), run at the end of every membership
\* reconciliation, the registry holds the circuits of a service s only if the
\* ring's isExitFor(s) is true, s being the name the circuits were created
\* under; the circuits of the services this router still owns are kept as
\* they were
C24_CircuitsOfOwnedServicesOnly ==
    [][(lastOp'.op = "updateServiceChannels" /\ ~IsNone(circuits))
       => \A c \in DOMAIN Get(circuits) :
             IF RingIsExitFor(ServiceNameOf(c))
             THEN /\ c \in DOMAIN Get(circuits')
                  /\ Get(circuits')[c] = Get(circuits)[c]
             ELSE c \notin DOMAIN Get(circuits')]_vars

\* the registry, empty while there are no circuits
Registry(cs) == IF IsNone(cs) THEN <<>> ELSE Get(cs)

\* the circuit and the events of the last requestOutcome or periodEnds
LastChange == CHOOSE r \in lastOp.info : TRUE

\* a period with at least minRequests requests and an error rate above
\* maxErrorRate
BadPeriod(requests, errors) ==
    /\ requests >= MinRequests
    /\ errors * MaxErrorRateDen > MaxErrorRateNum * requests

\* C25: a Healthy circuit that sees at least minRequests requests within one
\* period, with errors / requests above maxErrorRate, is Unhealthy at the end
\* of the period and emits one circuitStateChange(circuit, Healthy,
\* Unhealthy); getCircuitForRequest answers Declined for an Unhealthy
\* circuit; and a Healthy circuit becomes Unhealthy in no other way
C25_BadPeriodTripsCircuit ==
    [][LET before == Registry(circuits)
           after == Registry(circuits')
           change == CHOOSE r \in lastOp'.info : TRUE
       IN /\ \A c \in DOMAIN before \cap DOMAIN after :
                (before[c].state = "Healthy" /\ after[c].state = "Unhealthy")
                => /\ lastOp'.op = "periodEnds"
                   /\ change.circuit = c
                   /\ BadPeriod(before[c].requests, before[c].errors)
          /\ (lastOp'.op = "periodEnds" /\ before[change.circuit].state = "Healthy")
             => IF BadPeriod(before[change.circuit].requests,
                             before[change.circuit].errors)
                THEN /\ after[change.circuit].state = "Unhealthy"
                     /\ change.emitted = {[circuit |-> change.circuit,
                                           oldState |-> "Healthy",
                                           state |-> "Unhealthy"]}
                ELSE /\ after[change.circuit].state = "Healthy"
                     /\ change.emitted = {}
          /\ (lastOp'.op = "getCircuitForRequest" /\ lastOp'.s # Missing)
             => LET c == CircuitOf(change.cn, lastOp'.s, change.arg1)
                IN (c \in DOMAIN before /\ before[c].state = "Unhealthy")
                   => circuitResult'.err = "Declined"]_vars

\* a period ended that tripped a circuit
C25_Witness ==
    /\ lastOp.op = "periodEnds"
    /\ Registry(circuits)[LastChange.circuit].state = "Unhealthy"
    /\ LastChange.emitted # {}

\* C26: an Unhealthy circuit returns to Healthy exactly when it has seen
\* `probation` successful probes in a row: a probe that fails sets the count
\* back to none, a probe that succeeds adds one to it, the circuit is Healthy
\* again with the probe that makes the count `probation`, and with no other
\* step
C26_HealthyAfterProbation ==
    [][LET before == Registry(circuits)
           after == Registry(circuits')
           change == CHOOSE r \in lastOp'.info : TRUE
       IN /\ \A c \in DOMAIN before \cap DOMAIN after :
                (before[c].state = "Unhealthy" /\ after[c].state = "Healthy")
                => /\ lastOp'.op = "requestOutcome"
                   /\ change.circuit = c
                   /\ change.ok
                   /\ before[c].successes = Probation - 1
          /\ \A c \in DOMAIN before \cap DOMAIN after :
                (before[c].state = "Healthy" /\ after[c].state = "Unhealthy")
                => after[c].successes = 0
          /\ (lastOp'.op = "requestOutcome"
              /\ before[change.circuit].state = "Unhealthy")
             => LET old == before[change.circuit]
                    new == after[change.circuit]
                IN IF ~change.ok
                   THEN new.state = "Unhealthy" /\ new.successes = 0
                   ELSE IF old.successes + 1 = Probation
                   THEN /\ new.state = "Healthy"
                        /\ change.emitted = {[circuit |-> change.circuit,
                                              oldState |-> "Unhealthy",
                                              state |-> "Healthy"]}
                   ELSE new.state = "Unhealthy" /\ new.successes = old.successes + 1
          /\ \A c \in DOMAIN after :
                after[c].state = "Unhealthy" => after[c].successes < Probation]_vars

\* a circuit is Healthy again: the successful probe that ended its probation
\* was the last step
C26_Witness ==
    /\ lastOp.op = "requestOutcome"
    /\ LastChange.ok
    /\ LastChange.emitted # {}
    /\ Registry(circuits)[LastChange.circuit].state = "Healthy"

(***************************************************************************)
(* Properties of the kill switches of remote config.                       *)
(***************************************************************************)

\* the key of a kill-switch entry that names an edge: two parts, not both
\* empty or '*'
IsEdge(value) ==
    /\ Len(Split(value)) = 2
    /\ OrStar(Split(value)[1]) # "*" \/ OrStar(Split(value)[2]) # "*"

\* the keys the entries of a kill-switch list name
EdgesOf(killSwitches) ==
    {EdgeKey(OrStar(Split(killSwitches[i])[1]), OrStar(Split(killSwitches[i])[2])) :
        i \in {j \in DOMAIN killSwitches : IsEdge(killSwitches[j])}}

\* C29: neither blocking table ever holds the key '*~~*', and a kill-switch
\* update ignores the entries that name no edge ('*~~*', '~~', an entry
\* without separator) without aborting: it runs to its end and leaves in
\* the remote-config table exactly the edges its list names
C29_WildcardIgnored ==
    /\ "*~~*" \notin TableKeys(blockingTable)
    /\ "*~~*" \notin TableKeys(blockingTableRemoteConfig)
    /\ lastOp.op = "updateKillSwitches"
       => \A update \in lastOp.info :
             /\ ~update.threw
             /\ TableKeys(blockingTableRemoteConfig) = EdgesOf(update.killSwitches)

\* the part of C29 that holds: neither table ever holds the key '*~~*'
C29_WildcardKeyAbsent ==
    /\ "*~~*" \notin TableKeys(blockingTable)
    /\ "*~~*" \notin TableKeys(blockingTableRemoteConfig)

(***************************************************************************)
(* Properties of the rate limits.                                          *)
(***************************************************************************)

\* the step updates a limit of the rate limiter
LimitUpdate == lastOp'.op \in {"updateTotalLimit", "updateServiceLimit"}

\* the request of the step got as far as the total limit: the rate limiter
\* is on and no kill switch popped the request
ReachesTotalLimit ==
    /\ RateLimitedStep
    /\ outcome'.result # "popped: killswitch"

ReapedState == <<knownPeers, peersToReap, chanPeers, draining, rootPeers>>

\* two runs of the reaper with nothing in between: this step is the second
TwoReaps == lastOp.op = "reap" /\ lastOp'.op = "reap"

\* C28 as stated: a second run of the reaper, with no advertise since the
\* first, leaves knownPeers, peersToReap, the channels' peers and the drained
\* and deleted peers as the first run left them
C28_SecondReapChangesNothing ==
    [][TwoReaps => UNCHANGED ReapedState]_vars

\* C28, amended: a run of the reaper hands knownPeers over to peersToReap
\* and empties knownPeers, so a second run with no advertise in between is
\* the one that reaps what the first handed over and leaves both indices
\* empty; only a run that finds both indices empty (every run after the
\* second) changes nothing
C28_ReapIdempotentOnceEmpty ==
    [][lastOp'.op = "reap"
       => /\ knownPeers' = {}
          /\ peersToReap' = knownPeers
          /\ TwoReaps => peersToReap' = {}
          /\ (knownPeers = {} /\ peersToReap = {}) => UNCHANGED dispatchVars]_vars

\* the reaper ran with nothing advertised since its previous run, which
\* leaves both indices empty, and a peer is draining as reaped
C28_Witness ==
    /\ lastOp.op = "reap"
    /\ knownPeers = {}
    /\ peersToReap = {}
    /\ \E hp \in rootPeers : draining[hp] = "reaped"

(***************************************************************************)
(* Properties of the creation of a service channel.                        *)
(***************************************************************************)

\* the step creates the channel of service s
Creates(s) == chanMode[s] = "none" /\ chanMode'[s] # "none"

C31_ForwardPeersAreExits ==
    [][lastOp'.op = "updateServiceChannels"
       => \A s \in Services :
             /\ chanMode'[s] = "forward" => chanPeers'[s] = exits[s]
             /\ (chanMode[s] = "forward" /\ chanMode'[s] = "exit")
                => chanPeers'[s] = {}]_vars

\* a channel that held an advertised worker as an exit went to forward in
\* the pass and holds the exits of the ring, the worker being gone
C31_Witness ==
    /\ lastOp.op = "updateServiceChannels"
    /\ \E s \in lastOp.info :
          /\ chanMode[s] = "forward"
          /\ chanPeers[s] = exits[s]
          /\ \E hp \in Workers : IsKey(knownPeers, hp, s) /\ hp \notin chanPeers[s]

(***************************************************************************)
(* Properties of the drains of a peer.                                     *)
(***************************************************************************)

\* C32: with partial affinity off, after refreshServicePeer(s, hp) on an exit
\* for s the peer hp is not scheduled for prune and is not draining: a drain
\* started before by an unadvertise, the pruner or the reaper is cancelled
C32_RefreshCancelsDrain ==
    (/\ lastOp.op = "refreshServicePeer"
     /\ ~partialAffinityEnabled
     /\ chanMode[lastOp.s] = "exit")
    => /\ lastOp.hp \notin peersToPrune
       /\ draining[lastOp.hp] = "none"

\* the step is removeServicePeer(s, hp) for a service with a channel and a
\* peer of the transport peer table
RemovesPeer ==
    /\ lastOp'.op = "removeServicePeer"
    /\ chanMode[lastOp'.s] # "none"
    /\ lastOp'.hp \in rootPeers

C34_RejectedEarly ==
    [][lastOp'.op \in {"handleRequest", "handleLazily"}
       => /\ outcome'.result \in {"BadRequest", "popped: blocked"}
             => /\ UNCHANGED <<totalRps, serviceRps, ksTotalRps, ksRps, edgeRps>>
                /\ UNCHANGED dispatchVars
                /\ outcome'.channel = ""
          /\ outcome'.result \in {"popped: killswitch", "Busy: total", "Busy: service"}
             => /\ UNCHANGED dispatchVars
                /\ outcome'.channel = ""]_vars

\* a request for a service that has no channel was answered Busy, and the
\* service still has no channel
C34_Witness ==
    /\ lastOp.op \in {"handleRequest", "handleLazily"}
    /\ outcome.result \in {"Busy: total", "Busy: service"}
    /\ chanMode[outcome.sn] = "none"

(***************************************************************************)
(* Properties of ensurePartialConnections.                                 *)
(***************************************************************************)

\* the step is a reconciliation that finds service s on an exit that stays an
\* exit, with partial affinity on: for s it recomputes the range and runs
\* ensurePartialConnections(s), and nothing after it
ReconcilesPartially(s) ==
    /\ lastOp'.op = "updateServiceChannels"
    /\ partialAffinityEnabled
    /\ chanMode[s] = "exit"
    /\ RingIsExitFor(s)
    /\ s \in DOMAIN partialRanges'

\* the workers the run found connected for s, not affine and not scheduled
\* for prune
ToDisconnect(s) ==
    {w \in LevelKeys(connectedServicePeers, s) :
        /\ w \notin AffineWorkers(partialRanges'[s])
        /\ w \notin peersToPrune}

RelayStep == lastOp'.op \in {"onIdentified", "onResponse", "tryRequest"}

\* C36: the relay to an exit is in one phase at a time, so one request at
\* most is in flight to it; an attempt starts only when the retry timer
\* fires, and the timer is set only by a network error or a timeout of the
\* attempt before; a step of the relay to one exit leaves the relays to the
\* other exits as they are
C36_RetriesInSequence ==
    [][/\ \A h \in Relays :
             /\ attempts'[h] # attempts[h]
                => \/ lastOp'.op = "sendRelays"
                   \/ /\ lastOp'.op = "tryRequest" /\ lastOp'.hp = h
                      /\ relayPhase[h] = "retrying"
                      /\ relayPhase'[h] = "identifying"
                      /\ attempts'[h] = attempts[h] + 1
             /\ (relayPhase'[h] = "retrying" /\ relayPhase[h] # "retrying")
                => /\ lastOp'.op \in {"onIdentified", "onResponse"}
                   /\ lastOp'.hp = h
                   /\ lastOp'.s \in {"NetworkError", "Timeout"}
                   /\ relayPhase[h] \in {"identifying", "requesting"}
             /\ (relayPhase'[h] = "requesting" /\ relayPhase[h] # "requesting")
                => relayPhase[h] = "identifying"
       /\ RelayStep
          => \A x \in Relays \ {lastOp'.hp} :
                /\ relayPhase'[x] = relayPhase[x]
                /\ attempts'[x] = attempts[x]
                /\ relayDone'[x] = relayDone[x]
                /\ relayServices'[x] = relayServices[x]]_vars

\* the retry timer of one exit fired for its second attempt while the relay
\* to another exit of the same ad had finished
C36_Witness ==
    /\ lastOp.op = "tryRequest"
    /\ attempts[lastOp.hp] = 2
    /\ relayPhase[lastOp.hp] = "identifying"
    /\ \E x \in Relays \ {lastOp.hp} : relayPhase[x] = "finished"

(***************************************************************************)
(* Properties of the two peer indices of the reaper.                       *)
(***************************************************************************)

\* the pairs (hostPort, serviceName) an index holds, whatever their value
PairsOf(index) == {<<e[1], e[2]>> : e \in index}

\* C37: no pair (hostPort, serviceName) is in knownPeers and in peersToReap
\* at once
C37_KnownAndReapDisjoint == PairsOf(knownPeers) \cap PairsOf(peersToReap) = {}

\* the same while the clock is past 0
C37_DisjointPastZero == now # 0 => C37_KnownAndReapDisjoint


(***************************************************************************)
(* Properties of the circuits of the relay handlers.                       *)
(***************************************************************************)

\* channels created by advertisements and requests while circuits are
\* switched on and off and the ring's membership shifts
NextAttach ==
    \/ enableCircuits
    \/ disableCircuits
    \/ \E s \in Services, hp \in Workers : Advertise(s, hp)
    \/ \E sn \in Services : handleRequest("alice", sn, Missing)
    \/ \E e \in RingViews : RingChange(e)
    \/ UpdateServiceChannels

SpecAttach == Init /\ [][NextAttach]_vars

\* C38: while circuits are enabled the relay handler of a channel has the
\* registry exactly when the channel is an exit; while they are disabled no
\* exit channel's handler has it
C38_RegistryOnExitsOnly ==
    \A s \in Services :
       chanMode[s] # "none"
       => IF circuitsEnabled
          THEN handlerCircuits[s] <=> chanMode[s] = "exit"
          ELSE chanMode[s] = "exit" => ~handlerCircuits[s]


(***************************************************************************)
(* Properties of the hosts a discovery lookup lists.                       *)
(***************************************************************************)

\* the hosts of an answer as convertHosts writes the host ports of a set
HostsOf(hps) == {convertHosts(<<hp>>)[1] : hp \in hps}

\* the hosts the answer in hand lists
Listed == {discovery.peers[i] : i \in DOMAIN discovery.peers}

\* C39: an ok answer to discover or discoverAffine lists no host port of an
\* exit router, only host ports of workers
C39_ListsWorkersOnly ==
    discovery.answer = "ok"
    => /\ Listed \cap HostsOf(Relays) = {}
       /\ Listed \subseteq HostsOf(Workers)

\* the same for the answers a router gives for a service it is an exit of
C39_ExitListsWorkersOnly ==
    (/\ discovery.answer = "ok"
     /\ lastOp.op \in {"discover", "discoverAffine", "forwarded"}
     /\ chanMode[lastOp.s] = "exit")
    => Listed \subseteq HostsOf({hp \in Workers : IsKey(knownPeers, hp, lastOp.s)})

(***************************************************************************)
(* Properties of the drains of the pruner and the reaper.                  *)
(***************************************************************************)

\* advertisements and unadvertisements of the workers of one service, the
\* pruner, the reaper and the drains
NextDrain ==
    \/ \E hp \in Workers : Advertise(IndexedService, hp)
    \/ \E hp \in Workers : Unadvertise(IndexedService, hp)
    \/ PruneTick
    \/ ReapTick
    \/ \E hp \in HostPorts : DrainDone(hp)

\* a router built with partial affinity, every relay an exit of every
\* service
InitDrain ==
    /\ InitPartial
    /\ now = 1
    /\ partialAffinityEnabled
    /\ \A s \in Services : exits[s] = Relays

SpecDrain == InitDrain /\ [][NextDrain]_vars

\* C40: a run of the pruner leaves every draining peer's drain as it is; a
\* run of the reaper replaces a drain only when the pruner began it, and
\* leaves every other drain as it is; neither run begins a drain on a peer
\* the transport table does not hold
C40_DrainPrecedence ==
    [][\A hp \in HostPorts :
          /\ (lastOp'.op = "prune" /\ draining[hp] # "none")
             => draining'[hp] = draining[hp]
          /\ (lastOp'.op = "reap" /\ draining[hp] \notin {"none", "pruned"})
             => draining'[hp] = draining[hp]
          /\ (lastOp'.op = "reap" /\ draining[hp] = "pruned")
             => draining'[hp] \in {"pruned", "reaped"}
          /\ (lastOp'.op \in {"prune", "reap"} /\ hp \notin rootPeers)
             => /\ draining'[hp] = draining[hp]
                /\ hp \notin rootPeers']_vars

\* a run of the reaper that cancelled one peer's prune drain and began its
\* own, and skipped another peer draining for an unadvertisement
C40_Witness ==
    /\ lastOp.op = "reap"
    /\ \E c, k \in lastOp.info :
          /\ c.log = "canceling" /\ draining[c.hp] = "reaped"
          /\ k.log = "skipping" /\ draining[k.hp] = "unadvertised"
====
